---------------------------- MODULE Spec2Model ----------------------------
(***************************************************************************)
(* ticket-dispatcher: the MIME body selector (extractBodyAsMarkdown,       *)
(* readAndDecodePart), the HTML renderer (htmlToPlain) and the quote       *)
(* folder (hideQuotedPart).                                                *)
(*                                                                         *)
(* A Go string is a sequence of one-character strings.  A byte that is no  *)
(* printable ASCII character is a longer token ("xE9" is the byte 0xE9,    *)
(* "U+00E9" the code point it decodes to under windows-1252, "BQ" the      *)
(* backquote).                                                             *)
(***************************************************************************)
EXTENDS Integers, Sequences, FiniteSets, TLC

VARIABLES
    pc,            \* which call is pending or finished
    msg,           \* the *mail.Message handed to extractBodyAsMarkdown
    body,          \* extractBodyAsMarkdown's first result
    err,           \* extractBodyAsMarkdown's second result ("" is nil)
    doc,           \* the node tree xhtml.Parse returns to htmlToPlain
    rendered,      \* htmlToPlain's outcome
    md,            \* hideQuotedPart's first argument
    removeQuotes,  \* hideQuotedPart's second argument
    folded,        \* hideQuotedPart's result
    records,       \* the records of the S3 event handed to handler
    recAt,         \* the record the loop of handler is at
    comments,      \* the bodies of the comments of the issue on GitHub, oldest first
    token,         \* whether GITHUB_TOKEN is set
    poster         \* a history of the calls of postIssueComment

bodyVars == <<msg, body, err, doc, rendered, md, removeQuotes, folded>>
handlerVars == <<records, recAt>>
posterVars == <<comments, token, poster>>
vars == <<pc, bodyVars, handlerVars, posterVars>>

(***************************************************************************)
(* strings                                                                 *)
(***************************************************************************)
MinOf(S) == CHOOSE x \in S : \A y \in S : x <= y
MaxOf(S) == CHOOSE x \in S : \A y \in S : y <= x

UpperChars == <<"A", "B", "C", "D", "E", "F", "G", "H", "I", "J", "K", "L", "M", "N", "O", "P", "Q", "R", "S", "T", "U", "V", "W", "X", "Y", "Z">>
LowerChars == <<"a", "b", "c", "d", "e", "f", "g", "h", "i", "j", "k", "l", "m", "n", "o", "p", "q", "r", "s", "t", "u", "v", "w", "x", "y", "z">>
DigitChars == <<"0", "1", "2", "3", "4", "5", "6", "7", "8", "9">>

IndexIn(tbl, c) ==
    IF \E i \in 1..Len(tbl) : tbl[i] = c
    THEN CHOOSE i \in 1..Len(tbl) : tbl[i] = c
    ELSE 0

\* unicode.ToLower on the upper case letters
LowerOf == [c \in {UpperChars[i] : i \in 1..26} |-> LowerChars[IndexIn(UpperChars, c)]]

\* unicode.ToLower on one character
LowerChar(c) == IF c \in DOMAIN LowerOf THEN LowerOf[c] ELSE c

\* strings.ToLower
ToLower(s) == [i \in 1..Len(s) |-> LowerChar(s[i])]

\* unicode.IsSpace, on the characters of the model
IsSpace(c) == c \in {" ", "\t", "\n", "\r"}

\* strings.TrimSpace
TrimSpace(s) ==
    LET keep == {i \in 1..Len(s) : ~IsSpace(s[i])}
    IN  IF keep = {} THEN <<>> ELSE SubSeq(s, MinOf(keep), MaxOf(keep))

\* strings.HasPrefix, strings.HasSuffix
HasPrefix(s, p) == Len(s) >= Len(p) /\ SubSeq(s, 1, Len(p)) = p
HasSuffix(s, p) == Len(s) >= Len(p) /\ SubSeq(s, Len(s) - Len(p) + 1, Len(s)) = p

\* strings.Index, 1-based; 0 when sub does not occur
IndexOf(s, sub) ==
    LET at == {i \in 1..(Len(s) - Len(sub) + 1) : SubSeq(s, i, i + Len(sub) - 1) = sub}
    IN  IF at = {} THEN 0 ELSE MinOf(at)

\* strings.Contains
Contains(s, sub) == IndexOf(s, sub) > 0

\* strings.TrimRight(s, cutset), strings.TrimLeft(s, cutset)
TrimRight(s, cutset) ==
    LET keep == {i \in 1..Len(s) : s[i] \notin cutset}
    IN  IF keep = {} THEN <<>> ELSE SubSeq(s, 1, MaxOf(keep))
TrimLeft(s, cutset) ==
    LET keep == {i \in 1..Len(s) : s[i] \notin cutset}
    IN  IF keep = {} THEN <<>> ELSE SubSeq(s, MinOf(keep), Len(s))

\* strings.Repeat for a count >= 0 (a negative count panics: see Walk)
RECURSIVE Repeat(_, _)
Repeat(s, count) == IF count <= 0 THEN <<>> ELSE s \o Repeat(s, count - 1)

\* strings.Split(s, "\n")
RECURSIVE SplitLines(_)
SplitLines(s) ==
    LET i == IndexOf(s, <<"\n">>)
    IN  IF i = 0 THEN <<s>>
        ELSE <<SubSeq(s, 1, i - 1)>> \o SplitLines(SubSeq(s, i + 1, Len(s)))

\* strings.Join(lines, "\n")
RECURSIVE JoinLines(_)
JoinLines(lines) ==
    IF lines = <<>> THEN <<>>
    ELSE IF Len(lines) = 1 THEN lines[1]
    ELSE lines[1] \o <<"\n">> \o JoinLines(Tail(lines))

\* strings.ReplaceAll(s, old, new): non-overlapping, left to right
RECURSIVE ReplaceAll(_, _, _)
ReplaceAll(s, old, new) ==
    LET i == IndexOf(s, old)
    IN  IF i = 0 THEN s
        ELSE SubSeq(s, 1, i - 1) \o new \o ReplaceAll(SubSeq(s, i + Len(old), Len(s)), old, new)

\* fmt.Sprintf("%d", n) for n >= 0
RECURSIVE Itoa(_)
Itoa(n) == IF n < 10 THEN <<DigitChars[n + 1]>> ELSE Itoa(n \div 10) \o <<DigitChars[(n % 10) + 1]>>

(***************************************************************************)
(* bytes and characters                                                    *)
(***************************************************************************)
\* the printable ASCII characters, 0x20 .. 0x7E
Ascii == <<" ", "!", "\"", "#", "$", "%", "&", "'", "(", ")", "*", "+", ",", "-", ".", "/", "0", "1", "2", "3", "4", "5", "6", "7", "8", "9", ":", ";", "<", "=", ">", "?", "@", "A", "B", "C", "D", "E", "F", "G", "H", "I", "J", "K", "L", "M", "N", "O", "P", "Q", "R", "S", "T", "U", "V", "W", "X", "Y", "Z", "[", "\\", "]", "^", "_", "BQ", "a", "b", "c", "d", "e", "f", "g", "h", "i", "j", "k", "l", "m", "n", "o", "p", "q", "r", "s", "t", "u", "v", "w", "x", "y", "z", "{", "|", "}", "~">>

\* the character of a byte value
Chr(n) ==
    CASE n = 9 -> "\t"
      [] n = 10 -> "\n"
      [] n = 13 -> "\r"
      [] n >= 32 /\ n <= 126 -> Ascii[n - 31]
      [] n = 233 -> "xE9"
      [] n >= 128 -> "x80"
      [] OTHER -> "x00"

IsHighByte(c) == c \in {"xE9", "x80"}
PrintableChars == {Ascii[i] : i \in 1..Len(Ascii)}
IsPrintable(c) == c \in PrintableChars

(***************************************************************************)
(* transfer encodings: encoding/base64 and mime/quotedprintable            *)
(***************************************************************************)
Decoded(bytes) == [err |-> FALSE, bytes |-> bytes]
DecodeFailed == [err |-> TRUE, bytes |-> <<>>]

\* c followed by what r decodes to, or r's error
Cons(c, r) == IF r.err THEN r ELSE Decoded(<<c>> \o r.bytes)

B64Chars == <<"A", "B", "C", "D", "E", "F", "G", "H", "I", "J", "K", "L", "M", "N", "O", "P", "Q", "R", "S", "T", "U", "V", "W", "X", "Y", "Z", "a", "b", "c", "d", "e", "f", "g", "h", "i", "j", "k", "l", "m", "n", "o", "p", "q", "r", "s", "t", "u", "v", "w", "x", "y", "z", "0", "1", "2", "3", "4", "5", "6", "7", "8", "9", "+", "/">>

\* the decoding table: the 6-bit value of each character of the alphabet
B64Table == [c \in {B64Chars[i] : i \in 1..64} |-> IndexIn(B64Chars, c) - 1]

\* the 6-bit value of a base64 character, -1 for a character outside the alphabet
B64Val(c) == IF c \in DOMAIN B64Table THEN B64Table[c] ELSE -1

\* Encoding.Decode on the quanta of 4 characters; "=" pads the last quantum only
RECURSIVE B64Quanta(_)
B64Quanta(s) ==
    IF s = <<>> THEN Decoded(<<>>)
    ELSE IF Len(s) < 4 THEN DecodeFailed
    ELSE
      LET v1 == B64Val(s[1])
          v2 == B64Val(s[2])
          v3 == B64Val(s[3])
          v4 == B64Val(s[4])
          b1 == Chr(v1 * 4 + (v2 \div 16))
          b2 == Chr((v2 % 16) * 16 + (v3 \div 4))
          b3 == Chr((v3 % 4) * 64 + v4)
      IN  IF v1 < 0 \/ v2 < 0 THEN DecodeFailed
          ELSE IF v3 >= 0 /\ v4 >= 0
               THEN Cons(b1, Cons(b2, Cons(b3, B64Quanta(SubSeq(s, 5, Len(s))))))
          ELSE IF Len(s) > 4 THEN DecodeFailed
          ELSE IF s[3] = "=" /\ s[4] = "=" THEN Decoded(<<b1>>)
          ELSE IF v3 >= 0 /\ s[4] = "=" THEN Decoded(<<b1, b2>>)
          ELSE DecodeFailed

\* base64.NewDecoder(base64.StdEncoding, r) read to the end: "\r" and "\n" are
\* dropped from the input before it is decoded
DecodeBase64(s) == B64Quanta(SelectSeq(s, LAMBDA c : c \notin {"\r", "\n"}))

HexUpper == <<"0", "1", "2", "3", "4", "5", "6", "7", "8", "9", "A", "B", "C", "D", "E", "F">>
HexLower == <<"0", "1", "2", "3", "4", "5", "6", "7", "8", "9", "a", "b", "c", "d", "e", "f">>

\* fromHex: the value of a hexadecimal digit, -1 for any other character
HexVal(c) ==
    IF IndexIn(HexUpper, c) > 0 THEN IndexIn(HexUpper, c) - 1
    ELSE IF IndexIn(HexLower, c) > 0 THEN IndexIn(HexLower, c) - 1
    ELSE -1

\* the bytes of one line of a quoted-printable body
RECURSIVE QPBytes(_)
QPBytes(line) ==
    IF line = <<>> THEN Decoded(<<>>)
    ELSE IF line[1] = "="
    THEN IF Len(line) >= 3 /\ HexVal(line[2]) >= 0 /\ HexVal(line[3]) >= 0
         THEN Cons(Chr(16 * HexVal(line[2]) + HexVal(line[3])), QPBytes(SubSeq(line, 4, Len(line))))
         ELSE IF Len(line) >= 2 /\ line[2] \notin {"\r", "\n"}
         THEN Cons("=", QPBytes(Tail(line)))    \* the = is taken as a literal =
         ELSE DecodeFailed
    ELSE IF line[1] \in {"\t", "\r", "\n"} \/ IsHighByte(line[1]) \/ IsPrintable(line[1])
    THEN Cons(line[1], QPBytes(Tail(line)))
    ELSE DecodeFailed                           \* invalid unescaped byte

\* quotedprintable.NewReader(r) read to the end, line by line: trailing white space
\* of a line is dropped, a line ending in "=" is joined to the next one
RECURSIVE DecodeQuotedPrintable(_)
DecodeQuotedPrintable(s) ==
    IF s = <<>> THEN Decoded(<<>>)
    ELSE
      LET nl == IndexOf(s, <<"\n">>)
          whole == IF nl = 0 THEN s ELSE SubSeq(s, 1, nl)
          rest == SubSeq(s, Len(whole) + 1, Len(s))
          hasLF == HasSuffix(whole, <<"\n">>)
          hasCR == HasSuffix(whole, <<"\r", "\n">>)
          stripped == TrimRight(whole, {" ", "\t", "\r", "\n"})
          soft == HasSuffix(stripped, <<"=">>)
          rightStripped == SubSeq(whole, Len(stripped) + 1, Len(whole))
          line == IF soft THEN SubSeq(stripped, 1, Len(stripped) - 1)
                  ELSE IF hasLF THEN stripped \o (IF hasCR THEN <<"\r", "\n">> ELSE <<"\n">>)
                  ELSE stripped
          badSoft == /\ soft
                     /\ ~HasPrefix(rightStripped, <<"\n">>)
                     /\ ~HasPrefix(rightStripped, <<"\r", "\n">>)
                     /\ ~(rightStripped = <<>> /\ Len(line) > 0 /\ ~hasLF)
          here == QPBytes(line)
          after == DecodeQuotedPrintable(rest)
      IN  IF here.err \/ badSoft \/ after.err THEN DecodeFailed
          ELSE Decoded(here.bytes \o after.bytes)

(***************************************************************************)
(* header values: mime.ParseMediaType and charset.NewReaderLabel           *)
(***************************************************************************)
NoParams == [charset |-> <<>>, boundary |-> <<>>]

\* mime.ParseMediaType on the Content-Type values of the model: the media type
\* in lower case as <<type, subtype>>, the parameters, and whether it failed.
\* A value whose parameter list is broken gives the media type, no parameter
\* and ErrInvalidMediaParameter.
ParseMediaType(v) ==
    CASE v = "text/plain" ->
           [mediatype |-> <<"text", "plain">>, params |-> NoParams, err |-> FALSE]
      [] v = "text/plain; charset=UTF-8" ->
           [mediatype |-> <<"text", "plain">>,
            params |-> [charset |-> <<"U", "T", "F", "-", "8">>, boundary |-> <<>>], err |-> FALSE]
      [] v = "text/plain; charset=\"ISO-8859-1\"" ->
           [mediatype |-> <<"text", "plain">>,
            params |-> [charset |-> <<"I", "S", "O", "-", "8", "8", "5", "9", "-", "1">>, boundary |-> <<>>], err |-> FALSE]
      [] v = "text/plain; charset=x-unknown" ->
           [mediatype |-> <<"text", "plain">>,
            params |-> [charset |-> <<"x", "-", "u", "n", "k", "n", "o", "w", "n">>, boundary |-> <<>>], err |-> FALSE]
      [] v = "TEXT/HTML; charset=utf-8" ->
           [mediatype |-> <<"text", "html">>,
            params |-> [charset |-> <<"u", "t", "f", "-", "8">>, boundary |-> <<>>], err |-> FALSE]
      [] v = "text/html; charset" ->
           [mediatype |-> <<"text", "html">>, params |-> NoParams, err |-> TRUE]
      [] v = "image/png" ->
           [mediatype |-> <<"image", "png">>, params |-> NoParams, err |-> FALSE]
      [] v = "multipart/alternative; boundary=BOUNDARY42" ->
           [mediatype |-> <<"multipart", "alternative">>,
            params |-> [charset |-> <<>>, boundary |-> <<"B", "O", "U", "N", "D", "A", "R", "Y", "4", "2">>], err |-> FALSE]
      [] v = "multipart/mixed" ->
           [mediatype |-> <<"multipart", "mixed">>, params |-> NoParams, err |-> FALSE]
      [] OTHER ->   \* "" (no header) and "text/;" (no subtype): no media type
           [mediatype |-> <<"", "">>, params |-> NoParams, err |-> TRUE]

\* charset.Lookup: the labels the encoding index knows (all of windows-1252 here)
CharsetKnown(label) == label \in {<<"i", "s", "o", "-", "8", "8", "5", "9", "-", "1">>, <<"w", "i", "n", "d", "o", "w", "s", "-", "1", "2", "5", "2">>, <<"l", "a", "t", "i", "n", "1">>}

\* the windows-1252 decoder, byte by byte
DecodeWindows1252(bytes) ==
    [i \in 1..Len(bytes) |->
        CASE bytes[i] = "xE9" -> "U+00E9"
          [] bytes[i] = "x80" -> "U+20AC"
          [] OTHER -> bytes[i]]

(***************************************************************************)
(* readAndDecodePart                                                       *)
(***************************************************************************)
\* the error values of the model; NoError is Go's nil
NoError == ""
ErrCorruptInput == "transfer decoding: corrupt input"
ErrNoBoundary == "multipart without boundary"
ErrNoTextPart == "no text part found"
ErrNextPart == "multipart: NextPart: malformed MIME header"

\* Step 1 and 2: the reader chosen by Content-Transfer-Encoding, read to the end
ReadAllDecoded(r, cteHeader) ==
    LET cte == ToLower(TrimSpace(cteHeader))
    IN  CASE cte = <<"q", "u", "o", "t", "e", "d", "-", "p", "r", "i", "n", "t", "a", "b", "l", "e">> -> DecodeQuotedPrintable(r)
          [] cte = <<"b", "a", "s", "e", "6", "4">> -> DecodeBase64(r)
          [] OTHER -> Decoded(r)

readAndDecodePart(r, contentType, cteHeader) ==
    LET raw == ReadAllDecoded(r, cteHeader)
        params == ParseMediaType(contentType).params
        charsetLabel == ToLower(TrimSpace(params.charset))
    IN  IF raw.err THEN [bytes |-> <<>>, err |-> ErrCorruptInput]
        ELSE IF charsetLabel \in {<<>>, <<"u", "t", "f", "-", "8">>, <<"u", "s", "-", "a", "s", "c", "i", "i">>}
             THEN [bytes |-> raw.bytes, err |-> NoError]
        ELSE IF ~CharsetKnown(charsetLabel)
             THEN [bytes |-> raw.bytes, err |-> NoError]
        ELSE [bytes |-> DecodeWindows1252(raw.bytes), err |-> NoError]

(***************************************************************************)
(* htmlToPlain.  A node of the tree xhtml.Parse returns is a record: type  *)
(* ("document", "element", "text", "comment"), tag (Data of an element, in *)
(* lower case as the tokenizer leaves it), data (Data of a text node),     *)
(* attr (key and val) and kids (FirstChild and its NextSiblings).          *)
(***************************************************************************)
TextNode(s) == [type |-> "text", tag |-> "", data |-> s, attr |-> <<>>, kids |-> <<>>]
ElementNode(tag, attr, kids) == [type |-> "element", tag |-> tag, data |-> <<>>, attr |-> attr, kids |-> kids]
CommentNode(s) == [type |-> "comment", tag |-> "", data |-> s, attr |-> <<>>, kids |-> <<>>]
DocumentNode(kids) == [type |-> "document", tag |-> "", data |-> <<>>, attr |-> <<>>, kids |-> kids]
Attribute(key, val) == [key |-> key, val |-> val]

\* html.UnescapeString, for the entities of the model
RECURSIVE UnescapeString(_)
UnescapeString(s) ==
    IF s = <<>> THEN <<>>
    ELSE IF HasPrefix(s, <<"&", "a", "m", "p", ";">>) THEN <<"&">> \o UnescapeString(SubSeq(s, 6, Len(s)))
    ELSE IF HasPrefix(s, <<"&", "l", "t", ";">>) THEN <<"<">> \o UnescapeString(SubSeq(s, 5, Len(s)))
    ELSE IF HasPrefix(s, <<"&", "g", "t", ";">>) THEN <<">">> \o UnescapeString(SubSeq(s, 5, Len(s)))
    ELSE <<Head(s)>> \o UnescapeString(Tail(s))

\* the loop of the TextNode case: each run of white space becomes one space
\* written before the next other character; a run that ends the text is dropped
RECURSIVE CollapseSpace(_, _)
CollapseSpace(text, space) ==
    IF text = <<>> THEN <<>>
    ELSE IF Head(text) \in {" ", "\n", "\t", "\r"} THEN CollapseSpace(Tail(text), TRUE)
    ELSE (IF space THEN <<" ">> ELSE <<>>) \o <<Head(text)>> \o CollapseSpace(Tail(text), FALSE)

ensureTwoNewlines(buf) ==
    IF HasSuffix(buf, <<"\n", "\n">>) THEN buf
    ELSE IF HasSuffix(buf, <<"\n">>) THEN buf \o <<"\n">>
    ELSE buf \o <<"\n", "\n">>

\* collectText: the unescaped text of the text nodes under n, in document order
RECURSIVE collectText(_)
RECURSIVE collectTextOfKids(_)
collectText(n) == IF n.type = "text" THEN UnescapeString(n.data) ELSE collectTextOfKids(n.kids)
collectTextOfKids(kids) == IF kids = <<>> THEN <<>> ELSE collectText(Head(kids)) \o collectTextOfKids(Tail(kids))

\* gatherInnerText: the raw text of the text nodes under n, in document order
RECURSIVE gatherInnerText(_)
RECURSIVE gatherInnerTextOfKids(_)
gatherInnerText(n) == IF n.type = "text" THEN n.data ELSE gatherInnerTextOfKids(n.kids)
gatherInnerTextOfKids(kids) == IF kids = <<>> THEN <<>> ELSE gatherInnerText(Head(kids)) \o gatherInnerTextOfKids(Tail(kids))

\* the first attribute named key, trimmed (the href of an anchor); "" when absent
FirstAttr(attr, key) ==
    LET at == {i \in 1..Len(attr) : attr[i].key = key}
    IN  IF at = {} THEN <<>> ELSE TrimSpace(attr[MinOf(at)].val)

\* the last attribute named key (the alt and src of an image); "" when absent
LastAttr(attr, key) ==
    LET at == {i \in 1..Len(attr) : attr[i].key = key}
    IN  IF at = {} THEN <<>> ELSE attr[MaxOf(at)].val

\* fmt.Sscanf(tag[1:], "%d", &level) for h1 .. h6
HeadingLevel(tag) ==
    CASE tag = "h1" -> 1 [] tag = "h2" -> 2 [] tag = "h3" -> 3
      [] tag = "h4" -> 4 [] tag = "h5" -> 5 [] tag = "h6" -> 6 [] OTHER -> 1

\* The variables walk closes over: buf, listStack and olCounters.  panicked is set
\* when strings.Repeat is called with a negative count, which ends the call.
\* items is a history of the list items written: for each, the length of
\* listStack, the prefix chosen and the length of buf before its indentation.
WalkStart ==
    [buf |-> <<>>, listStack |-> <<>>, olCounters |-> <<>>, panicked |-> FALSE, items |-> <<>>, seen |-> <<>>]

Write(st, s) == [st EXCEPT !.buf = @ \o s]
EnsureBlank(st) == [st EXCEPT !.buf = ensureTwoNewlines(@)]

\* seen is the history of the two stacks: what they were after each push, pop
\* and item (as items, it is no variable of the program)
Seen(st, op) ==
    [st EXCEPT !.seen = Append(@, [op |-> op, listStack |-> st.listStack, olCounters |-> st.olCounters])]

\* a variant that pushes no counter for an ordered list
PushListWithoutCounter(st, tag) == [st EXCEPT !.listStack = Append(@, tag)]

\* case "ul", "ol": the pushes before the children are walked
PushList(st, tag) ==
    IF tag = "ol"
    THEN [st EXCEPT !.listStack = Append(@, "ol"), !.olCounters = Append(@, 1)]
    ELSE [st EXCEPT !.listStack = Append(@, "ul")]

\* a variant that leaves the counter of a closed ordered list on its stack
PopListKeepingCounter(st, tag) == [st EXCEPT !.listStack = SubSeq(@, 1, Len(@) - 1)]

\* case "ul", "ol": the pops after the children are walked
PopList(st, tag) ==
    IF tag = "ol"
    THEN [st EXCEPT !.olCounters = IF Len(@) > 0 THEN SubSeq(@, 1, Len(@) - 1) ELSE @,
                    !.listStack = SubSeq(@, 1, Len(@) - 1)]
    ELSE [st EXCEPT !.listStack = SubSeq(@, 1, Len(@) - 1)]

\* case "li", up to the children: the prefix, the counter and the indentation
ItemStart(st) ==
    LET depth == Len(st.listStack)
        ordered == depth > 0 /\ st.listStack[depth] = "ol" /\ Len(st.olCounters) > 0
        i == Len(st.olCounters)
        prefix == IF ordered THEN Itoa(st.olCounters[i]) \o <<".", " ">> ELSE <<"-", " ">>
        counted == IF ordered THEN [st EXCEPT !.olCounters[i] = @ + 1] ELSE st
    IN  IF depth - 1 < 0
        THEN [counted EXCEPT !.panicked = TRUE]
        ELSE [counted EXCEPT !.buf = @ \o Repeat(<<" ", " ">>, depth - 1) \o prefix,
                             !.items = Append(@, [depth |-> depth, prefix |-> prefix, at |-> Len(st.buf)])]

\* case "a"
Anchor(st, n) ==
    LET href == FirstAttr(n.attr, "href")
        plainText == TrimSpace(collectTextOfKids(n.kids))
    IN  IF href = <<>> \/ href = plainText
        THEN Write(st, <<" ">> \o plainText)
        ELSE Write(st, <<" ">> \o plainText \o <<" ", "(">> \o href \o <<")">>)

\* case "img"
Image(st, n) ==
    LET alt == LastAttr(n.attr, "alt")
        src == LastAttr(n.attr, "src")
    IN  IF alt # <<>> THEN Write(st, <<" ", "!", "[">> \o alt \o <<"]", "(">> \o src \o <<")">>) ELSE st

\* case "pre": the children are not walked
Preformatted(st, n) ==
    LET raw == gatherInnerText(n)
        opened == Write(EnsureBlank(st), <<"BQ", "BQ", "BQ", "\n">> \o raw)
        closed == IF HasSuffix(raw, <<"\n">>) THEN opened ELSE Write(opened, <<"\n">>)
    IN  EnsureBlank(Write(closed, <<"BQ", "BQ", "BQ", "\n">>))

\* walk(n); inPre is parentIsPre(n): some ancestor of n is a pre element
RECURSIVE walk(_, _, _)
RECURSIVE walkKids(_, _, _)
walk(n, st, inPre) ==
    IF st.panicked THEN st
    ELSE IF n.type = "text" THEN
        IF inPre THEN Write(st, UnescapeString(n.data))
        ELSE Write(st, CollapseSpace(UnescapeString(n.data), FALSE))
    ELSE IF n.type # "element" THEN walkKids(n.kids, st, inPre)
    ELSE
      LET under == inPre \/ n.tag = "pre"
      IN  CASE n.tag = "br" -> Write(st, <<"\n">>)
            [] n.tag \in {"p", "div"} ->
                 LET after == walkKids(n.kids, EnsureBlank(st), under)
                 IN  IF after.panicked THEN after ELSE EnsureBlank(after)
            [] n.tag \in {"h1", "h2", "h3", "h4", "h5", "h6"} ->
                 LET head == Write(EnsureBlank(st), Repeat(<<"#">>, HeadingLevel(n.tag)) \o <<" ">>)
                     after == walkKids(n.kids, head, under)
                 IN  IF after.panicked THEN after ELSE EnsureBlank(after)
            [] n.tag \in {"strong", "b"} ->
                 LET after == walkKids(n.kids, Write(st, <<" ", "*", "*">>), under)
                 IN  IF after.panicked THEN after ELSE Write(after, <<"*", "*">>)
            [] n.tag \in {"em", "i"} ->
                 LET after == walkKids(n.kids, Write(st, <<" ", "*">>), under)
                 IN  IF after.panicked THEN after ELSE Write(after, <<"*">>)
            [] n.tag = "a" -> Anchor(st, n)
            [] n.tag \in {"ul", "ol"} ->
                 LET after == walkKids(n.kids, Seen(PushList(st, n.tag), "push"), under)
                 IN  IF after.panicked THEN after ELSE EnsureBlank(Seen(PopList(after, n.tag), "pop"))
            [] n.tag = "li" ->
                 LET start == Seen(ItemStart(st), "item")
                     after == walkKids(n.kids, start, under)
                 IN  IF after.panicked THEN after ELSE Write(after, <<"\n">>)
            [] n.tag = "pre" -> Preformatted(st, n)
            [] n.tag = "code" ->
                 IF inPre THEN walkKids(n.kids, st, under)
                 ELSE LET after == walkKids(n.kids, Write(st, <<" ", "BQ">>), under)
                      IN  IF after.panicked THEN after ELSE Write(after, <<"BQ">>)
            [] n.tag = "img" -> Image(st, n)
            [] OTHER -> walkKids(n.kids, st, under)

walkKids(kids, st, inPre) ==
    IF kids = <<>> \/ st.panicked THEN st
    ELSE walkKids(Tail(kids), walk(Head(kids), st, inPre), inPre)

\* a variant that replaces once instead of until nothing is left to replace
normalizeBlankLinesOnce(s) == ReplaceAll(s, <<"\n", "\n", "\n">>, <<"\n", "\n">>)

\* normalizeBlankLines: ReplaceAll is repeated while "\n\n\n" occurs
RECURSIVE normalizeBlankLines(_)
normalizeBlankLines(s) ==
    IF Contains(s, <<"\n", "\n", "\n">>)
    THEN normalizeBlankLines(ReplaceAll(s, <<"\n", "\n", "\n">>, <<"\n", "\n">>))
    ELSE s

\* htmlToPlain from the parsed tree on: walk(doc), TrimSpace, normalizeBlankLines.
\* final is the state walk leaves behind.
RenderDoc(d) ==
    LET final == walk(d, WalkStart, FALSE)
    IN  IF final.panicked
        THEN [panicked |-> TRUE, out |-> <<>>, err |-> NoError, final |-> final]
        ELSE [panicked |-> FALSE, out |-> normalizeBlankLines(TrimSpace(final.buf)),
              err |-> NoError, final |-> final]

(***************************************************************************)
(* xhtml.Parse on the HTML bodies of the model                             *)
(***************************************************************************)
\* the tree of a document whose body holds kids
HtmlDocument(kids) ==
    DocumentNode(<<ElementNode("html", <<>>,
        <<ElementNode("head", <<>>, <<>>), ElementNode("body", <<>>, kids)>>)>>)

\* the tokenizer's newline normalisation: "\r\n" and "\r" become "\n"
RECURSIVE NormalizeNewlines(_)
NormalizeNewlines(s) ==
    IF s = <<>> THEN <<>>
    ELSE IF HasPrefix(s, <<"\r", "\n">>) THEN <<"\n">> \o NormalizeNewlines(SubSeq(s, 3, Len(s)))
    ELSE IF Head(s) = "\r" THEN <<"\n">> \o NormalizeNewlines(Tail(s))
    ELSE <<Head(s)>> \o NormalizeNewlines(Tail(s))

\* xhtml.Parse never fails on a string.  A source without markup is one text
\* node of the body; white space before the first other character is dropped.
Parse(htmlSrc) ==
    CASE htmlSrc = <<" ", "<", "p", ">", "A", "<", "/", "p", ">", "\r", "\n">> ->
           HtmlDocument(<<ElementNode("p", <<>>, <<TextNode(<<"A">>)>>), TextNode(<<"\n">>)>>)
      [] htmlSrc = <<"<", "b", ">", "B", "<", "/", "b", ">">> ->
           HtmlDocument(<<ElementNode("b", <<>>, <<TextNode(<<"B">>)>>)>>)
      [] htmlSrc = <<"<", "l", "i", ">", "C", "<", "/", "l", "i", ">">> ->
           HtmlDocument(<<ElementNode("li", <<>>, <<TextNode(<<"C">>)>>)>>)
      [] OTHER ->
           LET text == NormalizeNewlines(TrimLeft(htmlSrc, {" ", "\t", "\n", "\r"}))
           IN  IF text = <<>> THEN HtmlDocument(<<>>) ELSE HtmlDocument(<<TextNode(text)>>)

htmlToPlain(htmlSrc) == RenderDoc(Parse(htmlSrc))

(***************************************************************************)
(* extractBodyAsMarkdown.  A message is its Content-Type and               *)
(* Content-Transfer-Encoding headers, its body, and for a multipart body   *)
(* what multipart.Reader yields: the parts in order, a part whose header   *)
(* block cannot be read being one on which NextPart fails.                 *)
(***************************************************************************)
Returned(text, e) == [text |-> text, err |-> e, panicked |-> FALSE]
Panicked == [text |-> <<>>, err |-> NoError, panicked |-> TRUE]

\* return htmlToPlain(...)
ReturnHTML(r) == IF r.panicked THEN Panicked ELSE Returned(r.out, r.err)

\* a variant that compares the header as it is written
isAttachmentCaseSensitive(part) == HasPrefix(part.disposition, <<"a", "t", "t", "a", "c", "h", "m", "e", "n", "t">>)

\* the check on Content-Disposition that skips a part
isAttachment(part) == HasPrefix(ToLower(part.disposition), <<"a", "t", "t", "a", "c", "h", "m", "e", "n", "t">>)

\* after the loop: the HTML seen, converted, or no useful body
AfterParts(firstHTML) ==
    IF firstHTML # <<>> THEN ReturnHTML(htmlToPlain(firstHTML)) ELSE Returned(<<>>, NoError)

\* the loop over mr.NextPart(), from the part at the head of parts on
RECURSIVE ScanParts(_, _)
ScanParts(parts, firstHTML) ==
    IF parts = <<>> THEN AfterParts(firstHTML)
    ELSE
      LET part == Head(parts)
          ptype == ParseMediaType(part.contentType).mediatype
          d == readAndDecodePart(part.body, part.contentType, part.cte)
      IN  IF part.malformed THEN Returned(<<>>, ErrNextPart)
          ELSE IF isAttachment(part) THEN ScanParts(Tail(parts), firstHTML)
          ELSE CASE ptype = <<"text", "plain">> ->
                      IF d.err # NoError THEN Returned(<<>>, d.err)
                      ELSE Returned(TrimSpace(d.bytes), NoError)
                 [] ptype = <<"text", "html">> ->
                      IF d.err # NoError THEN Returned(<<>>, d.err)
                      ELSE ScanParts(Tail(parts), d.bytes)   \* firstHTML = string(b)
                 [] OTHER -> Returned(<<>>, ErrNoTextPart)

\* a variant that transfer-decodes the body before it is trimmed
NoContentTypeDecoding(m) ==
    LET d == readAndDecodePart(m.body, "text/plain", m.cte)
    IN  Returned(TrimSpace(d.bytes), d.err)

\* the branch taken when mime.ParseMediaType fails on the Content-Type header
NoContentType(m) == Returned(TrimSpace(m.body), NoError)

\* the branch of a multipart media type
Multipart(m) ==
    IF ParseMediaType(m.contentType).params.boundary = <<>>
    THEN Returned(<<>>, ErrNoBoundary)
    ELSE ScanParts(m.parts, <<>>)

\* the branch of a single part message
SinglePart(m) ==
    LET d == readAndDecodePart(m.body, m.contentType, m.cte)
    IN  IF d.err # NoError THEN Returned(<<>>, d.err)
        ELSE IF ParseMediaType(m.contentType).mediatype = <<"text", "html">>
             THEN ReturnHTML(htmlToPlain(d.bytes))
        ELSE Returned(TrimSpace(d.bytes), NoError)

extractBodyAsMarkdown(m) ==
    LET parsed == ParseMediaType(m.contentType)
    IN  IF parsed.err THEN NoContentType(m)
        ELSE IF parsed.mediatype[1] = "multipart" THEN Multipart(m)
        ELSE SinglePart(m)

(***************************************************************************)
(* hideQuotedPart.  Lines are numbered from 1; split = 0 is the code's -1. *)
(***************************************************************************)
\* a (?i) literal at the start of s
HasPrefixFold(s, p) == HasPrefix(ToLower(s), ToLower(p))

\* s without the "*" (or "-") characters it starts with
SkipLeading(s, c) == TrimLeft(s, {c})

\* (?i)^On .+ wrote:
MatchOnWrote(trim) ==
    /\ HasPrefixFold(trim, <<"O", "n", " ">>)
    /\ \E k \in 5..Len(trim) : HasPrefixFold(SubSeq(trim, k, Len(trim)), <<" ", "w", "r", "o", "t", "e", ":">>)

\* (?i)^\**From:\s*.+@.+
MatchFrom(trim) ==
    LET s == SkipLeading(trim, "*")
        rest == SubSeq(s, 6, Len(s))
    IN  /\ HasPrefixFold(s, <<"F", "r", "o", "m", ":">>)
        /\ \E k \in 2..(Len(rest) - 1) : rest[k] = "@"

\* (?i)^Sent:\s*
MatchSent(trim) == HasPrefixFold(trim, <<"S", "e", "n", "t", ":">>)

\* (?i)^\**To:\s*
MatchTo(trim) == HasPrefixFold(SkipLeading(trim, "*"), <<"T", "o", ":">>)

\* (?i)^\**Subject:\s*
MatchSubject(trim) == HasPrefixFold(SkipLeading(trim, "*"), <<"S", "u", "b", "j", "e", "c", "t", ":">>)

\* (?i)^-+ ?Original Message ?-+
MatchOriginalMessage(trim) ==
    LET dashed == SkipLeading(trim, "-")
        s == IF HasPrefix(dashed, <<" ">>) THEN Tail(dashed) ELSE dashed
        rest == SubSeq(s, 17, Len(s))
    IN  /\ HasPrefix(trim, <<"-">>)
        /\ HasPrefixFold(s, <<"O", "r", "i", "g", "i", "n", "a", "l", " ", "M", "e", "s", "s", "a", "g", "e">>)
        /\ (HasPrefix(rest, <<"-">>) \/ HasPrefix(rest, <<" ", "-">>))

\* (?i)^Begin forwarded message:
MatchForwarded(trim) == HasPrefixFold(trim, <<"B", "e", "g", "i", "n", " ", "f", "o", "r", "w", "a", "r", "d", "e", "d", " ", "m", "e", "s", "s", "a", "g", "e", ":">>)

\* (?m)^--\s*$ on a trimmed line without "\n"
MatchSignature(trim) ==
    HasPrefix(trim, <<"-", "-">>) /\ \A k \in 3..Len(trim) : trim[k] \in {" ", "\t", "\r"}

\* some re of pats matches trim
MatchesPats(trim) ==
    \/ MatchOnWrote(trim)
    \/ MatchFrom(trim)
    \/ MatchSent(trim)
    \/ MatchTo(trim)
    \/ MatchSubject(trim)
    \/ MatchOriginalMessage(trim)
    \/ MatchForwarded(trim)
    \/ MatchSignature(trim)

\* the loop of isQuoteBlock from line j on: the ">" lines counted, up to 3
RECURSIVE QuoteCount(_, _, _)
QuoteCount(lines, j, count) ==
    IF j > Len(lines) \/ count >= 3 THEN count
    ELSE IF HasPrefix(TrimSpace(lines[j]), <<">">>) THEN QuoteCount(lines, j + 1, count + 1)
    ELSE IF TrimSpace(lines[j]) = <<>> THEN QuoteCount(lines, j + 1, count)
    ELSE count

\* a variant that counts from the line after i
isQuoteBlockFromNext(lines, i) == i < Len(lines) /\ QuoteCount(lines, i + 1, 0) >= 3

isQuoteBlock(lines, i) == i <= Len(lines) /\ QuoteCount(lines, i, 0) >= 3

\* a variant that does not pass over blank lines
RECURSIVE FindSplitAtBlank(_, _)
FindSplitAtBlank(lines, i) ==
    IF i > Len(lines) THEN 0
    ELSE IF isQuoteBlock(lines, i) THEN i
    ELSE IF MatchesPats(TrimSpace(lines[i])) THEN i
    ELSE FindSplitAtBlank(lines, i + 1)

\* the loop that finds the split index, from line i on
RECURSIVE FindSplit(_, _)
FindSplit(lines, i) ==
    IF i > Len(lines) THEN 0
    ELSE IF TrimSpace(lines[i]) = <<>> THEN FindSplit(lines, i + 1)
    ELSE IF isQuoteBlock(lines, i) THEN i
    ELSE IF MatchesPats(TrimSpace(lines[i])) THEN i
    ELSE FindSplit(lines, i + 1)

\* a variant that keeps the newlines at the end of the quoted part
DetailsUntrimmed(quoted) ==
    <<"<", "d", "e", "t", "a", "i", "l", "s", ">", "\n", "<", "s", "u", "m", "m", "a", "r", "y", ">", "S", "h", "o", "w", " ", "q", "u", "o", "t", "e", "d", " ", "e", "m", "a", "i", "l", "<", "/", "s", "u", "m", "m", "a", "r", "y", ">", "\n", "\n">> \o quoted \o <<"\n", "\n", "<", "/", "d", "e", "t", "a", "i", "l", "s", ">">>

\* the <details> block around the quoted part
Details(quoted) ==
    <<"<", "d", "e", "t", "a", "i", "l", "s", ">", "\n", "<", "s", "u", "m", "m", "a", "r", "y", ">", "S", "h", "o", "w", " ", "q", "u", "o", "t", "e", "d", " ", "e", "m", "a", "i", "l", "<", "/", "s", "u", "m", "m", "a", "r", "y", ">", "\n", "\n">> \o TrimRight(quoted, {"\n"})
        \o <<"\n", "\n", "<", "/", "d", "e", "t", "a", "i", "l", "s", ">">>

\* a variant that cuts the newlines at the end of a text without a split
hideQuotedPartAtTidy(text, remove) ==
    IF FindSplit(SplitLines(text), 1) = 0 THEN [split |-> 0, text |-> TrimRight(text, {"\n"})]
    ELSE [split |-> FindSplit(SplitLines(text), 1), text |-> text]

\* a variant that keeps the line of the split when the quotes are removed
hideQuotedPartAtKeepingSplitLine(text, remove) ==
    LET lines == SplitLines(text)
        split == FindSplit(lines, 1)
    IN  IF split = 0 THEN [split |-> 0, text |-> text]
        ELSE [split |-> split, text |-> JoinLines(SubSeq(lines, 1, split)) \o <<"\n">>]

\* hideQuotedPart with the split index it found beside the text it returns
hideQuotedPartAt(text, remove) ==
    LET lines == SplitLines(text)
        split == FindSplit(lines, 1)
        visible == TrimRight(JoinLines(SubSeq(lines, 1, split - 1)), {"\n"})
        quoted == TrimLeft(JoinLines(SubSeq(lines, split, Len(lines))), {"\n"})
    IN  IF TrimSpace(text) = <<>> THEN [split |-> 0, text |-> text]
        ELSE IF split = 0 THEN [split |-> 0, text |-> text]
        ELSE IF TrimSpace(visible) = <<>> THEN [split |-> split, text |-> Details(quoted)]
        ELSE IF remove THEN [split |-> split, text |-> visible \o <<"\n">>]
        ELSE [split |-> split, text |-> visible \o <<"\n", "\n">> \o Details(quoted)]

hideQuotedPart(text, remove) == hideQuotedPartAt(text, remove).text

(***************************************************************************)
(* the headers the handler reads: net/mail's address parsers,              *)
(* extractIssueNumber, extractSenderDomain                                 *)
(***************************************************************************)
\* the configuration loadConfig reads, with the values of the tests
ticketDomain == <<"i", "s", "s", "u", "e", "s", ".", "e", "x", "a", "m", "p", "l", "e", ".", "c", "o", "m">>
whitelistDomain == <<"e", "x", "a", "m", "p", "l", "e", ".", "a", "c", ".", "u", "k">>

\* mail.ParseAddressList on the To and Cc values of the model: the addresses
\* (Address fields) of the list, or an error
ParseAddressList(h) ==
    CASE h = <<"4", "2", "@", "i", "s", "s", "u", "e", "s", ".", "e", "x", "a", "m", "p", "l", "e", ".", "c", "o", "m">> -> [err |-> FALSE, addrs |-> <<<<"4", "2", "@", "i", "s", "s", "u", "e", "s", ".", "e", "x", "a", "m", "p", "l", "e", ".", "c", "o", "m">>>>]
      [] h = <<"S", "u", "p", "p", "o", "r", "t", " ", "<", "s", "u", "p", "p", "o", "r", "t", "@", "e", "x", "a", "m", "p", "l", "e", ".", "a", "c", ".", "u", "k", ">", ",", " ", "T", "i", "c", "k", "e", "t", " ", "<", "4", "2", "@", "i", "s", "s", "u", "e", "s", ".", "e", "x", "a", "m", "p", "l", "e", ".", "c", "o", "m", ">">> ->
             [err |-> FALSE, addrs |-> <<<<"s", "u", "p", "p", "o", "r", "t", "@", "e", "x", "a", "m", "p", "l", "e", ".", "a", "c", ".", "u", "k">>, <<"4", "2", "@", "i", "s", "s", "u", "e", "s", ".", "e", "x", "a", "m", "p", "l", "e", ".", "c", "o", "m">>>>]
      [] h = <<"4", "x", "2", "@", "i", "s", "s", "u", "e", "s", ".", "e", "x", "a", "m", "p", "l", "e", ".", "c", "o", "m">> -> [err |-> FALSE, addrs |-> <<<<"4", "x", "2", "@", "i", "s", "s", "u", "e", "s", ".", "e", "x", "a", "m", "p", "l", "e", ".", "c", "o", "m">>>>]
      [] h = <<"4", "2", "@", "i", "s", "s", "u", "e", "s", ".", "e", "x", "a", "m", "p", "l", "e", ".", "c", "o", "m", ".", "e", "v", "i", "l", ".", "o", "r", "g">> ->
             [err |-> FALSE, addrs |-> <<<<"4", "2", "@", "i", "s", "s", "u", "e", "s", ".", "e", "x", "a", "m", "p", "l", "e", ".", "c", "o", "m", ".", "e", "v", "i", "l", ".", "o", "r", "g">>>>]
      [] h = <<"t", "e", "a", "m", "@", "i", "s", "s", "u", "e", "s", ".", "e", "x", "a", "m", "p", "l", "e", ".", "c", "o", "m">> -> [err |-> FALSE, addrs |-> <<<<"t", "e", "a", "m", "@", "i", "s", "s", "u", "e", "s", ".", "e", "x", "a", "m", "p", "l", "e", ".", "c", "o", "m">>>>]
      [] OTHER -> [err |-> TRUE, addrs |-> <<>>]

\* mail.ParseAddress on the From values of the model
ParseAddress(h) ==
    CASE h = <<"A", "l", "i", "c", "e", " ", "<", "a", "l", "i", "c", "e", "@", "e", "x", "a", "m", "p", "l", "e", ".", "a", "c", ".", "u", "k", ">">> -> [err |-> FALSE, address |-> <<"a", "l", "i", "c", "e", "@", "e", "x", "a", "m", "p", "l", "e", ".", "a", "c", ".", "u", "k">>]
      [] h = <<"b", "o", "b", "@", "C", "S", ".", "E", "x", "a", "m", "p", "l", "e", ".", "A", "C", ".", "U", "K">> -> [err |-> FALSE, address |-> <<"b", "o", "b", "@", "C", "S", ".", "E", "x", "a", "m", "p", "l", "e", ".", "A", "C", ".", "U", "K">>]
      [] h = <<"m", "a", "l", "l", "o", "r", "y", "@", "e", "v", "i", "l", "e", "x", "a", "m", "p", "l", "e", ".", "a", "c", ".", "u", "k">> -> [err |-> FALSE, address |-> <<"m", "a", "l", "l", "o", "r", "y", "@", "e", "v", "i", "l", "e", "x", "a", "m", "p", "l", "e", ".", "a", "c", ".", "u", "k">>]
      [] h = <<"e", "v", "e", "@", "o", "t", "h", "e", "r", ".", "o", "r", "g">> -> [err |-> FALSE, address |-> <<"e", "v", "e", "@", "o", "t", "h", "e", "r", ".", "o", "r", "g">>]
      [] OTHER -> [err |-> TRUE, address |-> <<>>]

\* strings.FieldsFunc(s, f) with f true on the characters of seps
RECURSIVE FieldsFunc(_, _)
FieldsFunc(s, seps) ==
    IF \A i \in 1..Len(s) : s[i] \in seps THEN <<>>
    ELSE
      LET first == MinOf({i \in 1..Len(s) : s[i] \notin seps})
          stops == {i \in first..Len(s) : s[i] \in seps}
          last == IF stops = {} THEN Len(s) ELSE MinOf(stops) - 1
      IN  <<SubSeq(s, first, last)>> \o FieldsFunc(SubSeq(s, last + 1, Len(s)), seps)

\* the at sign
AtSign == Chr(64)

\* strings.SplitN(s, at sign, 2)
SplitN2(s) ==
    LET i == IndexOf(s, <<AtSign>>)
    IN  IF i = 0 THEN <<s>> ELSE <<SubSeq(s, 1, i - 1), SubSeq(s, i + 1, Len(s))>>

\* the last element of strings.Split(s, at sign)
AfterLastAt(s) ==
    LET ats == {i \in 1..Len(s) : s[i] = AtSign}
    IN  IF ats = {} THEN s ELSE SubSeq(s, MaxOf(ats) + 1, Len(s))

\* strings.Trim(s, cutset)
Trim(s, cutset) == TrimLeft(TrimRight(s, cutset), cutset)

isDigits(s) == s # <<>> /\ \A i \in 1..Len(s) : s[i] \in {DigitChars[k] : k \in 1..10}

\* the first of the words with a numeric local part at the ticket domain;
\* <<>> is the empty string
RECURSIVE FirstTicketIn(_)
FirstTicketIn(words) ==
    IF words = <<>> THEN <<>>
    ELSE LET parts == SplitN2(Head(words))
         IN  IF Len(parts) = 2 /\ isDigits(parts[1]) /\ parts[2] = ticketDomain
             THEN parts[1]
             ELSE FirstTicketIn(Tail(words))

\* extractIssueNumber on one header: the parsed addresses, or the naive split
IssueInHeader(h) ==
    LET parsed == ParseAddressList(h)
    IN  IF h = <<>> THEN <<>>
        ELSE IF parsed.err THEN FirstTicketIn(FieldsFunc(h, {",", "<", ">", " ", "\n", "\t"}))
        ELSE FirstTicketIn(SelectSeq(parsed.addrs, LAMBDA a : a # <<>>))

extractIssueNumber(toHeader, ccHeader) ==
    IF IssueInHeader(toHeader) # <<>> THEN IssueInHeader(toHeader) ELSE IssueInHeader(ccHeader)

extractSenderDomain(fromHeader) ==
    LET parsed == ParseAddress(fromHeader)
        parts == SplitN2(parsed.address)
    IN  IF fromHeader = <<>> THEN <<>>
        ELSE IF parsed.err
             THEN IF Contains(fromHeader, <<AtSign>>)
                  THEN ToLower(Trim(AfterLastAt(fromHeader), {" ", "\t", "\r", "\n", "<", ">", "\""}))
                  ELSE <<>>
        ELSE IF Len(parts) # 2 THEN <<>>
        ELSE ToLower(parts[2])

(***************************************************************************)
(* postIssueComment and commentWithMessageIDExists.  GitHub is the list of *)
(* the comments of one issue; a page of the listing holds PerPage of them  *)
(* (100 in the code).                                                      *)
(***************************************************************************)
PerPage == 2

\* the line looked for, were it not trimmed
NeedleUntrimmed(messageID) == <<"M", "e", "s", "s", "a", "g", "e", "-", "I", "D", ":", " ">> \o messageID

\* the line commentWithMessageIDExists looks for
Needle(messageID) == TrimSpace(<<"M", "e", "s", "s", "a", "g", "e", "-", "I", "D", ":", " ">> \o messageID)

\* c.Body up to its first newline
FirstLine(commentBody) ==
    LET i == IndexOf(commentBody, <<"\n">>)
    IN  IF i = 0 THEN commentBody ELSE SubSeq(commentBody, 1, i - 1)

\* the comments of a page of the listing
PageOf(all, page) ==
    SubSeq(all, (page - 1) * PerPage + 1, MinOf({page * PerPage, Len(all)}))

\* the loop over the pages, from page on; the request for page failAt fails
\* (transport error, status other than 200, body that is no JSON)
RECURSIVE ListFrom(_, _, _, _)
ListFrom(all, needle, page, failAt) ==
    LET listed == PageOf(all, page)
    IN  IF page = failAt THEN [exists |-> FALSE, err |-> TRUE, requests |-> page]
        ELSE IF listed = <<>> THEN [exists |-> FALSE, err |-> FALSE, requests |-> page]
        ELSE IF \E i \in 1..Len(listed) : TrimSpace(FirstLine(listed[i])) = needle
             THEN [exists |-> TRUE, err |-> FALSE, requests |-> page]
        ELSE ListFrom(all, needle, page + 1, failAt)

commentWithMessageIDExists(all, messageID, tokenSet, failAt) ==
    IF ~tokenSet THEN [exists |-> FALSE, err |-> TRUE, requests |-> 0]
    ELSE ListFrom(all, Needle(messageID), 1, failAt)

\* what the POST does: "created" is status 201, "refused" another status,
\* "lost" a transport error after GitHub stored the comment, "failed" a
\* transport error before it did
PostOutcomes == {"created", "refused", "lost", "failed"}

\* postIssueComment: the comments of the issue after the call, whether the
\* POST was sent, whether the call returned nil, and what the check returned
postIssueComment(all, msgId, comment, tokenSet, failAt, outcome) ==
    LET check == commentWithMessageIDExists(all, msgId, tokenSet, failAt)
        payload == <<"M", "e", "s", "s", "a", "g", "e", "-", "I", "D", ":", " ">> \o msgId \o <<"\n">> \o comment
        stored == outcome \in {"created", "lost"}
    IN  IF check.exists \/ ~tokenSet
        THEN [comments |-> all, sent |-> FALSE, stored |-> FALSE, ok |-> FALSE, check |-> check]
        ELSE [comments |-> IF stored THEN Append(all, payload) ELSE all,
              sent |-> TRUE, stored |-> stored, ok |-> outcome = "created", check |-> check]

\* the history kept of the calls: their number, the comments they stored,
\* whether every listing request succeeded, and the last call
NoCalls ==
    [calls |-> 0, created |-> 0, listingsOk |-> TRUE,
     last |-> [before |-> <<>>, msgId |-> <<>>, sent |-> FALSE, checkErr |-> FALSE, from |-> <<>>]]

AfterCall(history, all, msgId, from, result) ==
    [calls |-> history.calls + 1,
     created |-> history.created + (IF result.stored THEN 1 ELSE 0),
     listingsOk |-> history.listingsOk /\ (result.check.requests = 0 \/ ~result.check.err),
     last |-> [before |-> all, msgId |-> msgId, sent |-> result.sent,
               checkErr |-> result.check.err, from |-> from]]

(***************************************************************************)
(* the inputs of the model                                                 *)
(***************************************************************************)
MaxParts == 3      \* parts of a multipart message
MaxBlocks == 3     \* elements in the body of a document
MaxItems == 3      \* items of the outer list of a document of nested lists
MaxInner == 2      \* items of a list nested in an item
MaxLines == 5      \* lines of a text handed to hideQuotedPart
MaxRecords == 2    \* records of an S3 event
MaxComments == 2   \* comments on the issue that postIssueComment did not write
MaxCalls == 3      \* calls of postIssueComment with one Message-ID

SeqsUpTo(S, n) == UNION {[1..k -> S] : k \in 0..n}
SeqsFrom1(S, n) == UNION {[1..k -> S] : k \in 1..n}

\* bodies: HTML, base64 of "<b>B</b>", corrupt base64, quoted-printable with a
\* soft line break, with an escaped byte, with white space after a soft line
\* break (an error), base64 of "caf" and the byte 0xE9, a stray list item
Bodies ==
    { <<" ", "<", "p", ">", "A", "<", "/", "p", ">", "\r", "\n">>, <<"P", "G", "I", "+", "Q", "j", "w", "v", "Y", "j", "4", "=", "\r", "\n">>, <<"S", "G", "!", "k">>, <<"H", "e", "l", "l", "o", "=", "\r", "\n", "W", "o", "r", "l", "d", "\r", "\n">>,
      <<" ", "c", "a", "f", "=", "E", "9", " ", "=", "3", "D", "\r", "\n">>, <<"H", "e", "l", "l", "o", "=", " ", "\r", "\n", "W", "o", "r", "l", "d">>, <<"Y", "2", "F", "m", "6", "Q", "=", "=">>, <<"<", "l", "i", ">", "C", "<", "/", "l", "i", ">">>, <<" ", "\r", "\n">> }

TransferEncodings == { <<>>, <<"7", "b", "i", "t">>, <<" ", "B", "a", "s", "e", "6", "4", " ">>, <<"Q", "u", "o", "t", "e", "d", "-", "P", "r", "i", "n", "t", "a", "b", "l", "e">> }

\* Content-Type values of a message that is not scanned as multipart; "" is a
\* message without the header
SingleContentTypes ==
    { "", "text/;", "text/html; charset", "text/plain", "text/plain; charset=UTF-8",
      "text/plain; charset=\"ISO-8859-1\"", "text/plain; charset=x-unknown",
      "TEXT/HTML; charset=utf-8", "image/png", "multipart/mixed" }

Part(disposition, contentType, cte, partBody) ==
    [malformed |-> FALSE, disposition |-> disposition, contentType |-> contentType,
     cte |-> cte, body |-> partBody]

\* a part on whose header block NextPart fails
MalformedPart ==
    [malformed |-> TRUE, disposition |-> <<>>, contentType |-> "", cte |-> <<>>, body |-> <<>>]

PartContentTypes == { "text/plain; charset=UTF-8", "TEXT/HTML; charset=utf-8", "image/png" }

\* the transfer encoding and body of a part: 7bit, good base64, corrupt base64
PartPayloads ==
    { <<<<>>, <<" ", "<", "p", ">", "A", "<", "/", "p", ">", "\r", "\n">>>>, <<<<"b", "a", "s", "e", "6", "4">>, <<"P", "G", "I", "+", "Q", "j", "w", "v", "Y", "j", "4", "=", "\r", "\n">>>>, <<<<"b", "a", "s", "e", "6", "4">>, <<"S", "G", "!", "k">>>> }

Parts ==
    {Part(<<>>, t, p[1], p[2]) : t \in PartContentTypes, p \in PartPayloads}
    \cup {Part(<<"i", "n", "l", "i", "n", "e", ";", " ", "f", "i", "l", "e", "n", "a", "m", "e", "=", "a", "t", "t", "a", "c", "h", "m", "e", "n", "t", ".", "t", "x", "t">>, t, <<>>, <<" ", "<", "p", ">", "A", "<", "/", "p", ">", "\r", "\n">>) :
            t \in {"text/plain; charset=UTF-8", "TEXT/HTML; charset=utf-8"}}
    \cup {Part(<<"A", "t", "t", "a", "c", "h", "m", "e", "n", "t", ";", " ", "f", "i", "l", "e", "n", "a", "m", "e", "=", "a", ".", "t", "x", "t">>, t, p[1], p[2]) :
            t \in {"text/plain; charset=UTF-8", "TEXT/HTML; charset=utf-8"},
            p \in {<<<<"b", "a", "s", "e", "6", "4">>, <<"P", "G", "I", "+", "Q", "j", "w", "v", "Y", "j", "4", "=", "\r", "\n">>>>, <<<<"b", "a", "s", "e", "6", "4">>, <<"S", "G", "!", "k">>>>}}
    \cup {Part(<<"A", "T", "T", "A", "C", "H", "M", "E", "N", "T">>, "image/png", <<>>, <<" ", "<", "p", ">", "A", "<", "/", "p", ">", "\r", "\n">>), MalformedPart}

Message(contentType, cte, msgBody, parts) ==
    [contentType |-> contentType, cte |-> cte, body |-> msgBody, parts |-> parts]

Messages ==
    {Message(t, e, b, <<>>) : t \in SingleContentTypes, e \in TransferEncodings, b \in Bodies}
    \cup {Message("multipart/alternative; boundary=BOUNDARY42", <<>>, <<>>, ps) :
            ps \in SeqsUpTo(Parts, MaxParts)}

\* elements of a body: text, line breaks, empty and filled blocks, pre blocks
\* whose raw text holds runs of newlines, a list, a list item outside any list
Blocks ==
    { TextNode(<<"a", "\n", " ", "b">>),
      ElementNode("br", <<>>, <<>>),
      ElementNode("p", <<>>, <<>>),
      ElementNode("div", <<>>, <<TextNode(<<"c">>)>>),
      ElementNode("p", <<>>, <<TextNode(<<"d">>), ElementNode("br", <<>>, <<>>), ElementNode("br", <<>>, <<>>),
                               ElementNode("br", <<>>, <<>>), ElementNode("br", <<>>, <<>>), TextNode(<<"e">>)>>),
      ElementNode("pre", <<>>, <<TextNode(<<"f", "\n", "\n", "\n", "\n", "\n", "g">>)>>),
      ElementNode("pre", <<>>, <<ElementNode("code", <<>>, <<TextNode(<<"\n", "\n", "\n">>)>>)>>),
      ElementNode("ul", <<>>, <<ElementNode("li", <<>>, <<TextNode(<<"h">>)>>)>>),
      ElementNode("li", <<>>, <<TextNode(<<"i">>)>>) }

\* documents that use the other elements
InlineDocs ==
    { HtmlDocument(<<ElementNode("h2", <<>>, <<TextNode(<<"T", "i", "t", "l", "e">>)>>),
                     ElementNode("p", <<>>, <<TextNode(<<"H", "e", "l", "l", "o", " ", "&", "a", "m", "p", ";", " ">>),
                                              ElementNode("b", <<>>, <<TextNode(<<"b", "o", "l", "d">>)>>),
                                              ElementNode("em", <<>>, <<TextNode(<<"i", "t">>)>>)>>)>>),
      HtmlDocument(<<TextNode(<<"S", "e", "e", " ">>),
                     ElementNode("a", <<Attribute("href", <<" ", "h", "t", "t", "p", "s", ":", "/", "/", "e", ".", "c", "o", "m", " ">>)>>,
                                 <<ElementNode("i", <<>>, <<TextNode(<<"p", "r", "o", "j", "e", "c", "t">>)>>)>>),
                     ElementNode("a", <<Attribute("href", <<"u">>)>>, <<TextNode(<<"u">>)>>),
                     ElementNode("code", <<>>, <<TextNode(<<"f", "(", ")">>)>>),
                     CommentNode(<<"h", "i", "d", "d", "e", "n">>)>>),
      HtmlDocument(<<ElementNode("img", <<Attribute("src", <<"s", ".", "p", "n", "g">>), Attribute("alt", <<"l", "o", "g", "o">>)>>, <<>>),
                     ElementNode("img", <<Attribute("src", <<"t", ".", "p", "n", "g">>)>>, <<>>),
                     ElementNode("span", <<>>, <<TextNode(<<"x">>)>>)>>) }

ListItem(kids) == ElementNode("li", <<>>, kids)
ListOf(kind, items) == ElementNode(kind, <<>>, items)

\* the innermost lists: one item, in an ordered or an unordered list
DeepLists == {ListOf(kind, <<ListItem(<<TextNode(<<"z">>)>>)>>) : kind \in {"ul", "ol"}}

\* items of a nested list: text, and as the last item text and then a list
InnerItems == {ListItem(<<TextNode(<<"y">>)>>)}
    \cup {ListItem(<<TextNode(<<"y">>), l>>) : l \in DeepLists}

\* lists nested in an item: up to MaxInner items, the last one may hold a list
InnerLists ==
    {ListOf(kind, [i \in 1..k |-> IF i = k THEN last ELSE ListItem(<<TextNode(<<"y">>)>>)]) :
        kind \in {"ul", "ol"}, k \in 1..MaxInner, last \in InnerItems}

\* items of the outer list: text, text and then a list, an item in a div
OuterItems ==
    {ListItem(<<TextNode(<<"x">>)>>), ElementNode("div", <<>>, <<ListItem(<<TextNode(<<"w">>)>>)>>)}
    \cup {ListItem(<<TextNode(<<"x">>), l>>) : l \in InnerLists}

\* documents of nested lists, and of two lists side by side
ListDocs ==
    {HtmlDocument(<<ListOf(kind, items)>>) : kind \in {"ul", "ol"}, items \in SeqsFrom1(OuterItems, MaxItems)}
    \cup {HtmlDocument(<<l1, l2>>) : l1 \in InnerLists, l2 \in InnerLists}

Docs ==
    {HtmlDocument(blocks) : blocks \in SeqsUpTo(Blocks, MaxBlocks)} \cup InlineDocs \cup ListDocs

\* lines of a text: blank ones, quoted ones, plain ones, a reply header
Lines == { <<>>, <<" ">>, <<">", "q">>, <<" ", ">", " ", "r", "\r">>, <<"t", "e", "x", "t">>, <<"O", "n", " ", "M", "o", "n", ",", " ", "A", " ", "w", "r", "o", "t", "e", ":">> }

\* lines that the patterns match or just fail to match
PatternLines ==
    { <<"*", "*", "F", "r", "o", "m", ":", "*", "*", " ", "a", "@", "b", ".", "c">>, <<"F", "r", "o", "m", ":", " ", "n", "o", "b", "o", "d", "y">>, <<"s", "e", "n", "t", ":", " ", "M", "o", "n", "d", "a", "y">>, <<"*", "T", "o", ":", " ", "x">>, <<"S", "u", "b", "j", "e", "c", "t", ":", " ", "s">>,
      <<"-", "-", "-", "-", " ", "o", "r", "i", "g", "i", "n", "a", "l", " ", "m", "e", "s", "s", "a", "g", "e", " ", "-", "-", "-", "-">>, <<"O", "r", "i", "g", "i", "n", "a", "l", " ", "M", "e", "s", "s", "a", "g", "e">>, <<"B", "e", "g", "i", "n", " ", "f", "o", "r", "w", "a", "r", "d", "e", "d", " ", "m", "e", "s", "s", "a", "g", "e", ":">>,
      <<"-", "-">>, <<"-", "-", " ", "x">>, <<"O", "n", " ", "w", "r", "o", "t", "e", ":">>, <<">">> }

\* the ends of a reply: a run with a blank line in it, a reply header, a run
\* before blank lines
Tails ==
    { <<<<">", "q">>, <<>>, <<">", "q">>, <<" ", ">", " ", "r", "\r">>>>, <<<<"O", "n", " ", "M", "o", "n", ",", " ", "A", " ", "w", "r", "o", "t", "e", ":">>, <<">", "q">>>>,
      <<<<">", "q">>, <<">", "q">>, <<">", "q">>, <<>>, <<>>>> }

\* replies whose own text begins with up to two quoted or blank lines
Replies ==
    {JoinLines(pre \o <<<<"t", "e", "x", "t">>>> \o tail) : pre \in SeqsUpTo({<<">", "q">>, <<>>}, 2), tail \in Tails}

Texts ==
    {JoinLines(ls) : ls \in SeqsUpTo(Lines, MaxLines)}
    \cup {JoinLines(<<<<"h", "e", "l", "l", "o">>, l1, l2>>) : l1 \in PatternLines, l2 \in PatternLines}
    \cup Replies

\* a record of the event: whether GetObject and io.ReadAll succeed, whether
\* mail.ReadMessage parses the object, and the headers and body of the message
Record(fetch, parses, msgId, to, cc, from, auth, message) ==
    [fetch |-> fetch, parses |-> parses, msgId |-> msgId, to |-> to, cc |-> cc,
     from |-> from, auth |-> auth, message |-> message]

\* a reply in plain text, a body that base64 cannot decode, and an HTML body
\* with a list item outside any list
StrayItemMessage == Message("TEXT/HTML; charset=utf-8", <<>>, <<"<", "l", "i", ">", "C", "<", "/", "l", "i", ">">>, <<>>)
ReplyMessage == Message("text/plain", <<>>, <<"F", "i", "n", "e", ".", "\n", "\n", "O", "n", " ", "M", "o", "n", ",", " ", "A", " ", "w", "r", "o", "t", "e", ":", "\n", ">", "q", "\n">>, <<>>)
CorruptMessage == Message("text/plain", <<"b", "a", "s", "e", "6", "4">>, <<"S", "G", "!", "k">>, <<>>)

\* a message that passes every test of the handler
GoodRecord ==
    Record("ok", TRUE, <<"<", "a", "@", "b", ">">>, <<"4", "2", "@", "i", "s", "s", "u", "e", "s", ".", "e", "x", "a", "m", "p", "l", "e", ".", "c", "o", "m">>, <<>>, <<"A", "l", "i", "c", "e", " ", "<", "a", "l", "i", "c", "e", "@", "e", "x", "a", "m", "p", "l", "e", ".", "a", "c", ".", "u", "k", ">">>,
           <<"m", "x", ".", "e", "x", "a", "m", "p", "l", "e", ";", " ", "s", "p", "f", "=", "p", "a", "s", "s", " ", "s", "m", "t", "p", ".", "m", "a", "i", "l", "f", "r", "o", "m", "=", "a", "l", "i", "c", "e">>, ReplyMessage)

ToValues ==
    { <<"S", "u", "p", "p", "o", "r", "t", " ", "<", "s", "u", "p", "p", "o", "r", "t", "@", "e", "x", "a", "m", "p", "l", "e", ".", "a", "c", ".", "u", "k", ">", ",", " ", "T", "i", "c", "k", "e", "t", " ", "<", "4", "2", "@", "i", "s", "s", "u", "e", "s", ".", "e", "x", "a", "m", "p", "l", "e", ".", "c", "o", "m", ">">>, <<"4", "x", "2", "@", "i", "s", "s", "u", "e", "s", ".", "e", "x", "a", "m", "p", "l", "e", ".", "c", "o", "m">>,
      <<"4", "2", "@", "i", "s", "s", "u", "e", "s", ".", "e", "x", "a", "m", "p", "l", "e", ".", "c", "o", "m", ".", "e", "v", "i", "l", ".", "o", "r", "g">>, <<"t", "e", "a", "m", "@", "i", "s", "s", "u", "e", "s", ".", "e", "x", "a", "m", "p", "l", "e", ".", "c", "o", "m">>, <<"4", "2", "@", "i", "s", "s", "u", "e", "s", ".", "e", "x", "a", "m", "p", "l", "e", ".", "c", "o", "m", ">">>, <<>> }

FromValues ==
    { <<"b", "o", "b", "@", "C", "S", ".", "E", "x", "a", "m", "p", "l", "e", ".", "A", "C", ".", "U", "K">>, <<"m", "a", "l", "l", "o", "r", "y", "@", "e", "v", "i", "l", "e", "x", "a", "m", "p", "l", "e", ".", "a", "c", ".", "u", "k">>, <<"e", "v", "e", "@", "o", "t", "h", "e", "r", ".", "o", "r", "g">>,
      <<"C", "a", "r", "o", "l", " ", "c", "a", "r", "o", "l", "@", "e", "x", "a", "m", "p", "l", "e", ".", "a", "c", ".", "u", "k", ">">>, <<"n", "o", "b", "o", "d", "y">>, <<>> }

AuthValues ==
    { <<"m", "x", ".", "e", "x", "a", "m", "p", "l", "e", ";", " ", "s", "p", "f", "=", "f", "a", "i", "l", ";", " ", "d", "k", "i", "m", "=", "p", "a", "s", "s", " ", "h", "e", "a", "d", "e", "r", ".", "d", "=", "e", "x", "a", "m", "p", "l", "e", ".", "a", "c", ".", "u", "k">>, <<"m", "x", ".", "e", "x", "a", "m", "p", "l", "e", ";", " ", "s", "p", "f", "=", "f", "a", "i", "l", ";", " ", "d", "k", "i", "m", "=", "n", "o", "n", "e">>,
      <<"m", "x", ".", "e", "x", "a", "m", "p", "l", "e", ";", " ", "S", "P", "F", "=", "P", "A", "S", "S">>, <<>> }

\* objects that cannot be fetched, read or parsed, the good message, and the
\* good message with one header or its body changed
Records ==
    { [GoodRecord EXCEPT !.fetch = "get failed"], [GoodRecord EXCEPT !.fetch = "read failed"],
      [GoodRecord EXCEPT !.parses = FALSE], GoodRecord,
      [GoodRecord EXCEPT !.message = CorruptMessage],
      [GoodRecord EXCEPT !.message = StrayItemMessage], [GoodRecord EXCEPT !.msgId = <<>>],
      [GoodRecord EXCEPT !.to = <<"t", "e", "a", "m", "@", "i", "s", "s", "u", "e", "s", ".", "e", "x", "a", "m", "p", "l", "e", ".", "c", "o", "m">>, !.cc = <<"4", "2", "@", "i", "s", "s", "u", "e", "s", ".", "e", "x", "a", "m", "p", "l", "e", ".", "c", "o", "m">>] }
    \cup {[GoodRecord EXCEPT !.to = t] : t \in ToValues}
    \cup {[GoodRecord EXCEPT !.from = f] : f \in FromValues}
    \cup {[GoodRecord EXCEPT !.auth = a] : a \in AuthValues}

\* comments that others wrote: one whose first line is the Message-ID line
\* with white space around it, one that only begins like it, one that is the
\* line of a message without Message-ID
OtherBodies ==
    { <<"T", "h", "a", "n", "k", "s", "!">>, <<" ", "M", "e", "s", "s", "a", "g", "e", "-", "I", "D", ":", " ", "<", "a", "@", "b", ">", " ", "\r", "\n", "a", "s", " ", "q", "u", "o", "t", "e", "d">>, <<"M", "e", "s", "s", "a", "g", "e", "-", "I", "D", ":", " ", "<", "a", "@", "b", ">", "x", "\n">>, <<"M", "e", "s", "s", "a", "g", "e", "-", "I", "D", ":">> }

MessageIDs == { <<"<", "a", "@", "b", ">">>, <<>> }
CommentTexts == { <<"F", "r", "o", "m", ":", " ", "A", "l", "i", "c", "e", " ", "<", "a", "l", "i", "c", "e", "@", "e", "x", "a", "m", "p", "l", "e", ".", "a", "c", ".", "u", "k", ">", "\n", "\n", "F", "i", "n", "e", ".", "\n">>, <<"F", "r", "o", "m", ":", " ", "e", "v", "e", "@", "o", "t", "h", "e", "r", ".", "o", "r", "g", "\n", "\n", ">", " ", "q">> }

(***************************************************************************)
(* the calls                                                               *)
(***************************************************************************)
NoMessage == Message("", <<>>, <<>>, <<>>)
NoDocument == DocumentNode(<<>>)
NotRendered == [panicked |-> FALSE, out |-> <<>>, err |-> NoError, final |-> WalkStart]
NotFolded == [split |-> 0, text |-> <<>>]
NoEvent == records = <<>> /\ recAt = 1
NoGitHub == comments = <<>> /\ token = FALSE /\ poster = NoCalls

\* a call of extractBodyAsMarkdown is pending
InitMime ==
    /\ pc = "extract"
    /\ msg \in Messages
    /\ body = <<>> /\ err = NoError
    /\ doc = NoDocument /\ rendered = NotRendered
    /\ md = <<>> /\ removeQuotes = FALSE /\ folded = NotFolded
    /\ NoEvent /\ NoGitHub

\* a call of htmlToPlain is pending, its source parsed
InitHtml ==
    /\ pc = "render"
    /\ doc \in Docs
    /\ rendered = NotRendered
    /\ msg = NoMessage /\ body = <<>> /\ err = NoError
    /\ md = <<>> /\ removeQuotes = FALSE /\ folded = NotFolded
    /\ NoEvent /\ NoGitHub

\* a call of hideQuotedPart is pending
InitQuote ==
    /\ pc = "fold"
    /\ md \in Texts
    /\ removeQuotes \in BOOLEAN
    /\ folded = NotFolded
    /\ msg = NoMessage /\ body = <<>> /\ err = NoError
    /\ doc = NoDocument /\ rendered = NotRendered
    /\ NoEvent /\ NoGitHub

\* a call of handler is pending: the loop is at the first record
InitHandler ==
    /\ pc = "handler"
    /\ records \in SeqsUpTo(Records, MaxRecords)
    /\ recAt = 1
    /\ removeQuotes \in BOOLEAN
    /\ token \in BOOLEAN
    /\ comments \in SeqsUpTo({<<"M", "e", "s", "s", "a", "g", "e", "-", "I", "D", ":", " ", "<", "a", "@", "b", ">", "\n", "F", "r", "o", "m", ":", " ", "A", "l", "i", "c", "e", " ", "<", "a", "l", "i", "c", "e", "@", "e", "x", "a", "m", "p", "l", "e", ".", "a", "c", ".", "u", "k", ">", "\n", "\n", "F", "i", "n", "e", ".", "\n">>}, 1)
    /\ poster = NoCalls
    /\ msg = NoMessage /\ body = <<>> /\ err = NoError
    /\ doc = NoDocument /\ rendered = NotRendered
    /\ md = <<>> /\ folded = NotFolded

\* calls of postIssueComment with one issue and one Message-ID are to come
InitPoster ==
    /\ pc = "poster"
    /\ comments \in SeqsUpTo(OtherBodies, MaxComments)
    /\ token \in BOOLEAN
    /\ \E id \in MessageIDs : poster = [NoCalls EXCEPT !.last.msgId = id]
    /\ NoEvent
    /\ msg = NoMessage /\ body = <<>> /\ err = NoError
    /\ doc = NoDocument /\ rendered = NotRendered
    /\ md = <<>> /\ removeQuotes = FALSE /\ folded = NotFolded

Init == InitMime \/ InitHtml \/ InitQuote \/ InitHandler \/ InitPoster

\* what a call of extractBodyAsMarkdown leaves: its results, or a panic
Leave(result) ==
    LET r == result
    IN  /\ pc' = IF r.panicked THEN "panicked" ELSE "returned"
        /\ body' = r.text
        /\ err' = r.err
        /\ UNCHANGED <<msg, doc, rendered, md, removeQuotes, folded, handlerVars, posterVars>>

\* extractBodyAsMarkdown, Content-Type missing or not parseable
ExtractNoContentType ==
    /\ pc = "extract"
    /\ ParseMediaType(msg.contentType).err
    /\ Leave(extractBodyAsMarkdown(msg))

\* extractBodyAsMarkdown, a multipart message
ExtractMultipart ==
    /\ pc = "extract"
    /\ ~ParseMediaType(msg.contentType).err
    /\ ParseMediaType(msg.contentType).mediatype[1] = "multipart"
    /\ Leave(extractBodyAsMarkdown(msg))

\* extractBodyAsMarkdown, a single part message
ExtractSinglePart ==
    /\ pc = "extract"
    /\ ~ParseMediaType(msg.contentType).err
    /\ ParseMediaType(msg.contentType).mediatype[1] # "multipart"
    /\ Leave(extractBodyAsMarkdown(msg))

\* htmlToPlain, after xhtml.Parse
Render ==
    /\ pc = "render"
    /\ rendered' = RenderDoc(doc)
    /\ pc' = IF rendered'.panicked THEN "panicked" ELSE "returned"
    /\ UNCHANGED <<msg, body, err, doc, md, removeQuotes, folded, handlerVars, posterVars>>

\* hideQuotedPart
Fold ==
    /\ pc = "fold"
    /\ folded' = hideQuotedPartAt(md, removeQuotes)
    /\ pc' = "returned"
    /\ UNCHANGED <<msg, body, err, doc, rendered, md, removeQuotes, handlerVars, posterVars>>

\* the loop of handler: GetObject or io.ReadAll fails, continue
HandleFetchFailure ==
    /\ pc = "handler" /\ recAt <= Len(records)
    /\ records[recAt].fetch # "ok"
    /\ recAt' = recAt + 1
    /\ UNCHANGED <<pc, records, bodyVars, posterVars>>

\* the loop of handler: mail.ReadMessage fails, its error is not looked at, and
\* msg.Header is read through the nil pointer it returned
HandleUnparseable ==
    /\ pc = "handler" /\ recAt <= Len(records)
    /\ records[recAt].fetch = "ok" /\ ~records[recAt].parses
    /\ pc' = "panicked"
    /\ UNCHANGED <<bodyVars, handlerVars, posterVars>>

\* the three tests of the handler on the headers of a record
PassesAuth(rec) == Contains(rec.auth, <<"s", "p", "f", "=", "p", "a", "s", "s">>) \/ Contains(rec.auth, <<"d", "k", "i", "m", "=", "p", "a", "s", "s">>)
PassesWhitelist(rec) == HasSuffix(extractSenderDomain(rec.from), whitelistDomain)
HasIssue(rec) == extractIssueNumber(rec.to, rec.cc) # <<>>

\* what one pass of the loop leaves behind, given the body extracted from the
\* message and that body folded by hideQuotedPart: "fatal" is log.Fatalf, which
\* ends the process with status 1; "post" is the call of postIssueComment,
\* after which os.Exit(0) ends the process.
Outcome(rec, extracted, foldedBody) ==
    IF ~PassesAuth(rec) \/ ~PassesWhitelist(rec) \/ ~HasIssue(rec)
    THEN [step |-> "fatal", msg |-> NoMessage, body |-> <<>>, err |-> NoError,
          md |-> <<>>, folded |-> NotFolded, comment |-> <<>>]
    ELSE IF extracted.panicked
    THEN [step |-> "panicked", msg |-> rec.message, body |-> <<>>, err |-> NoError,
          md |-> <<>>, folded |-> NotFolded, comment |-> <<>>]
    ELSE IF extracted.err # NoError
    THEN [step |-> "fatal", msg |-> rec.message, body |-> <<>>, err |-> extracted.err,
          md |-> <<>>, folded |-> NotFolded, comment |-> <<>>]
    ELSE [step |-> "post", msg |-> rec.message, body |-> extracted.text, err |-> NoError,
          md |-> extracted.text, folded |-> foldedBody,
          comment |-> <<"F", "r", "o", "m", ":", " ">> \o rec.from \o <<"\n", "\n">> \o foldedBody.text]

\* the body of the message, folded
Folding(rec, remove, extracted) ==
    Outcome(rec, extracted, hideQuotedPartAt(extracted.text, remove))

\* one pass of the loop on a record that was fetched and parsed: the tests
\* in the order of the code, then extractBodyAsMarkdown and hideQuotedPart
HandleRecord(rec, remove) == Folding(rec, remove, extractBodyAsMarkdown(rec.message))

\* log.Fatalf: the process ends with status 1
Fatal(h) ==
    /\ h.step = "fatal"
    /\ msg' = h.msg /\ body' = h.body /\ err' = h.err
    /\ pc' = "fatal"
    /\ UNCHANGED <<doc, rendered, md, removeQuotes, folded, handlerVars, posterVars>>

\* the runtime panic of extractBodyAsMarkdown unwinds handler
Panic(h) ==
    /\ h.step = "panicked"
    /\ msg' = h.msg /\ body' = h.body /\ err' = h.err
    /\ pc' = "panicked"
    /\ UNCHANGED <<doc, rendered, md, removeQuotes, folded, handlerVars, posterVars>>

\* postIssueComment, then os.Exit(0)
Post(h, rec) ==
    /\ h.step = "post"
    /\ msg' = h.msg /\ body' = h.body /\ err' = h.err
    /\ md' = h.md /\ folded' = h.folded
    /\ \E failAt \in 0..1, outcome \in PostOutcomes :
          LET result == postIssueComment(comments, rec.msgId, h.comment, token, failAt, outcome)
          IN  /\ comments' = result.comments
              /\ poster' = AfterCall(poster, comments, rec.msgId, rec.from, result)
    /\ pc' = "exited"
    /\ UNCHANGED <<doc, rendered, removeQuotes, token, handlerVars>>

\* a record that was fetched and parsed
Parsed == pc = "handler" /\ recAt <= Len(records) /\ records[recAt].fetch = "ok" /\ records[recAt].parses

\* the loop of handler: log.Fatalf on a message that fails a test or whose
\* body cannot be extracted
HandleFatal == Parsed /\ Fatal(HandleRecord(records[recAt], removeQuotes))

\* the loop of handler: extractBodyAsMarkdown panics
HandlePanic == Parsed /\ Panic(HandleRecord(records[recAt], removeQuotes))

\* the loop of handler: the message passes, its body is folded and posted, and
\* os.Exit(0) ends the process
HandlePost == Parsed /\ Post(HandleRecord(records[recAt], removeQuotes), records[recAt])

\* the loop of handler is over: return nil
HandleReturn ==
    /\ pc = "handler" /\ recAt > Len(records)
    /\ pc' = "returned"
    /\ UNCHANGED <<bodyVars, handlerVars, posterVars>>

\* one more call of postIssueComment with the Message-ID of the calls before
PostComment ==
    /\ pc = "poster" /\ poster.calls < MaxCalls
    /\ \E comment \in CommentTexts, failAt \in 0..(Len(comments) \div PerPage + 2),
          outcome \in PostOutcomes :
          LET result == postIssueComment(comments, poster.last.msgId, comment, token, failAt, outcome)
          IN  /\ comments' = result.comments
              /\ poster' = AfterCall(poster, comments, poster.last.msgId, <<>>, result)
    /\ UNCHANGED <<pc, token, bodyVars, handlerVars>>

\* somebody else comments on the issue
OtherComment ==
    /\ pc = "poster" /\ Len(comments) < MaxComments
    /\ \E b \in OtherBodies : comments' = Append(comments, b)
    /\ UNCHANGED <<pc, token, poster, bodyVars, handlerVars>>

NextMime == ExtractNoContentType \/ ExtractMultipart \/ ExtractSinglePart
NextHtml == Render
NextQuote == Fold
NextHandler == HandleFetchFailure \/ HandleUnparseable \/ HandleFatal \/ HandlePanic \/ HandlePost \/ HandleReturn
NextPoster == PostComment \/ OtherComment
Next == NextMime \/ NextHtml \/ NextQuote \/ NextHandler \/ NextPoster

SpecMime == InitMime /\ [][NextMime]_vars
SpecHtml == InitHtml /\ [][NextHtml]_vars
SpecQuote == InitQuote /\ [][NextQuote]_vars
SpecHandler == InitHandler /\ [][NextHandler]_vars
SpecPoster == InitPoster /\ [][NextPoster]_vars
Spec == Init /\ [][Next]_vars

(***************************************************************************)
(* the MIME body selector: C1 .. C6                                        *)
(***************************************************************************)
\* a Content-Disposition that starts with "attachment", whatever the case
StartsWithAttachment(d) ==
    Len(d) >= 10 /\ [i \in 1..10 |-> LowerChar(d[i])] = <<"a", "t", "t", "a", "c", "h", "m", "e", "n", "t">>

IsAttachmentPart(p) == ~p.malformed /\ StartsWithAttachment(p.disposition)
IsBodyPart(p, mediatype) ==
    ~p.malformed /\ ~StartsWithAttachment(p.disposition) /\ ParseMediaType(p.contentType).mediatype = mediatype
IsPlainPart(p) == IsBodyPart(p, <<"text", "plain">>)
IsHTMLPart(p) == IsBodyPart(p, <<"text", "html">>)
IsOtherPart(p) == ~p.malformed /\ ~StartsWithAttachment(p.disposition) /\ ~IsPlainPart(p) /\ ~IsHTMLPart(p)

\* the call was on a multipart message, and is over
ScanOver == pc # "extract" /\ msg.contentType = "multipart/alternative; boundary=BOUNDARY42"

\* the indices of the parts that satisfy P
PartsThat(P(_)) == {k \in 1..Len(msg.parts) : P(msg.parts[k])}

\* the first text/plain part that is no attachment, when only attachments and
\* text/html parts come before it; 0 when there is none
LeadingPlain ==
    LET plain == PartsThat(IsPlainPart)
        k == MinOf(plain)
    IN  IF plain # {} /\ \A j \in 1..(k - 1) : IsAttachmentPart(msg.parts[j]) \/ IsHTMLPart(msg.parts[j])
        THEN k ELSE 0

\* the content of a part, decoded as far as it can be: the bytes as they are
\* when they cannot be transfer-decoded
BestEffortContent(p) ==
    LET d == readAndDecodePart(p.body, p.contentType, p.cte)
    IN  IF d.err = NoError THEN d.bytes ELSE readAndDecodePart(p.body, p.contentType, <<>>).bytes

\* C1: in a multipart message whose first text/plain part that is no attachment
\* has only attachments and text/html parts before it, the call returns the
\* decoded, trimmed content of that part and no error, whatever follows it.
C1_FirstPlainPartWins ==
    (ScanOver /\ LeadingPlain > 0) =>
        /\ pc = "returned"
        /\ err = NoError
        /\ body = TrimSpace(BestEffortContent(msg.parts[LeadingPlain]))

\* the message without its attachment parts
WithoutAttachments(m) ==
    [m EXCEPT !.parts = SelectSeq(@, LAMBDA p : ~IsAttachmentPart(p))]

\* C2: the text and error returned for a multipart message are those returned
\* for the message with every attachment part removed.
C2_AttachmentsNeverContribute ==
    ScanOver =>
        LET r == extractBodyAsMarkdown(WithoutAttachments(msg))
        IN  /\ body = r.text
            /\ err = r.err
            /\ (pc = "panicked") = r.panicked

\* C2 witness: a text/html attachment with a good body stands before the part
\* the returned text comes from.
C2_Witness ==
    /\ ScanOver /\ pc = "returned" /\ err = NoError /\ body # <<>>
    /\ Len(msg.parts) >= 2
    /\ IsAttachmentPart(msg.parts[1])
    /\ ParseMediaType(msg.parts[1].contentType).mediatype = <<"text", "html">>
    /\ readAndDecodePart(msg.parts[1].body, msg.parts[1].contentType, msg.parts[1].cte).err = NoError

\* C3: when no text/plain part that is no attachment exists and the scan ends
\* without error, the text returned is the rendering of the first text/html
\* part that is no attachment.
C3_FirstHTMLPartRendered ==
    (ScanOver /\ pc = "returned" /\ err = NoError
        /\ PartsThat(IsPlainPart) = {} /\ PartsThat(IsHTMLPart) # {}) =>
        body = htmlToPlain(BestEffortContent(msg.parts[MinOf(PartsThat(IsHTMLPart))])).out

\* C4: the scan fails with the no-text-part error only on a part that is no
\* attachment and neither text/plain nor text/html, met before any text/html
\* part that is no attachment.
C4_NoTextPartOnlyBeforeCandidate ==
    (ScanOver /\ err = ErrNoTextPart) =>
        \E k \in PartsThat(IsOtherPart) : \A j \in 1..(k - 1) : IsAttachmentPart(msg.parts[j])

\* C5: readAndDecodePart returns a nil error for every body, transfer encoding
\* and charset, so extractBodyAsMarkdown never fails on a decoding problem.
C5_DecodingNeverFails ==
    pc # "extract" =>
        /\ readAndDecodePart(msg.body, msg.contentType, msg.cte).err = NoError
        /\ err # ErrCorruptInput

\* C6: when the Content-Type header is missing or cannot be parsed, the call
\* returns the whole body trimmed and no error: nothing is decoded, converted
\* or rendered, whatever Content-Transfer-Encoding says.
C6_NoContentTypeReturnsRawBody ==
    (pc # "extract" /\ ParseMediaType(msg.contentType).err) =>
        /\ pc = "returned"
        /\ err = NoError
        /\ body = TrimSpace(msg.body)

\* C6 witness: a body that base64 would decode, under a Content-Type that
\* names text/html but cannot be parsed, is returned as it is.
C6_Witness ==
    /\ pc = "returned"
    /\ msg.contentType = "text/html; charset"
    /\ ToLower(TrimSpace(msg.cte)) = <<"b", "a", "s", "e", "6", "4">>
    /\ DecodeBase64(msg.body).err = FALSE
    /\ DecodeBase64(msg.body).bytes # TrimSpace(msg.body)
    /\ body = TrimSpace(msg.body)

(***************************************************************************)
(* the renderer: C7 .. C9                                                  *)
(***************************************************************************)
\* the places of s where three newlines follow one another
NewlineRuns(s, n) == {i \in 1..(Len(s) - n + 1) : \A d \in 0..(n - 1) : s[i + d] = "\n"}

\* C7: the string htmlToPlain returns holds no three consecutive newlines.
C7_NoThreeNewlines ==
    (pc = "returned" /\ doc # NoDocument) => NewlineRuns(rendered.out, 3) = {}

\* C7 witness: the text walked, trimmed, held four newlines in a row, so that
\* one replacement of three by two would have left three.
C7_Witness ==
    /\ pc = "returned" /\ doc # NoDocument
    /\ NewlineRuns(TrimSpace(rendered.final.buf), 4) # {}

\* the numbers the list items below kids carry, in document order, when kids
\* stand in a list of the given kind whose next item is item n: every list
\* counts from 1, and an item of an unordered list carries 0
RECURSIVE ExpectedNumbers(_, _, _)
ExpectedNumbers(kids, kind, n) ==
    IF kids = <<>> THEN [numbers |-> <<>>, next |-> n]
    ELSE
      LET k == Head(kids)
          first ==
              IF k.type # "element" THEN [numbers |-> <<>>, next |-> n]
              ELSE IF k.tag \in {"ul", "ol"}
                   THEN [numbers |-> ExpectedNumbers(k.kids, k.tag, 1).numbers, next |-> n]
              ELSE IF k.tag = "li"
                   THEN LET below == ExpectedNumbers(k.kids, kind, n + 1)
                        IN  [numbers |-> <<IF kind = "ol" THEN n ELSE 0>> \o below.numbers,
                             next |-> below.next]
              ELSE ExpectedNumbers(k.kids, kind, n)
          rest == ExpectedNumbers(Tail(kids), kind, first.next)
      IN  [numbers |-> first.numbers \o rest.numbers, next |-> rest.next]

ExpectedOfDoc == ExpectedNumbers(doc.kids, "", 1).numbers
ExpectedPrefix(n) == IF n = 0 THEN <<"-", " ">> ELSE Itoa(n) \o <<".", " ">>
DigitsIn(s) == SelectSeq(s, LAMBDA c : c \in {"0", "1", "2", "3", "4", "5", "6", "7", "8", "9"})

\* C8: the items of an ordered list are numbered 1, 2, 3, ... in document
\* order: every ordered list starts at 1, and the lists nested in an item leave
\* the numbers of the items that follow in the enclosing list as they were.
\* The prefixes written, and the digits of the text returned, are those numbers.
C8_OrderedListNumbering ==
    (pc = "returned" /\ doc # NoDocument) =>
        LET numbers == ExpectedOfDoc
            ordered == SelectSeq(numbers, LAMBDA n : n > 0)
        IN  /\ \A i \in 1..Len(ordered) : ordered[i] < 10
            /\ [i \in 1..Len(rendered.final.items) |-> rendered.final.items[i].prefix]
                   = [i \in 1..Len(numbers) |-> ExpectedPrefix(numbers[i])]
            /\ DigitsIn(rendered.out) = [i \in 1..Len(ordered) |-> Itoa(ordered[i])[1]]

\* C8 witness: the first item of an ordered list holds an ordered list, and
\* the item after it was numbered 2.
C8_Witness ==
    /\ pc = "returned" /\ doc # NoDocument
    /\ \E i, j, k \in 1..Len(rendered.final.items) :
          /\ i < j /\ j < k
          /\ rendered.final.items[i].depth = 1 /\ rendered.final.items[i].prefix = <<"1", ".", " ">>
          /\ rendered.final.items[j].depth = 2 /\ rendered.final.items[j].prefix = <<"1", ".", " ">>
          /\ rendered.final.items[k].depth = 1 /\ rendered.final.items[k].prefix = <<"2", ".", " ">>

\* C9: htmlToPlain returns a string and a nil error for every document the
\* parser produces, a list item outside any list included; it never panics.
C9_RenderIsTotal ==
    (pc # "render" /\ doc # NoDocument) =>
        /\ pc = "returned"
        /\ ~rendered.panicked
        /\ rendered.err = NoError

(***************************************************************************)
(* the quote folder: C10                                                   *)
(***************************************************************************)
IsQuotedLine(l) == LET t == TrimSpace(l) IN Len(t) > 0 /\ t[1] = ">"

\* the lines at which three quoted lines in a row begin
QuotedRuns(lines) == {i \in 1..(Len(lines) - 2) : \A d \in 0..2 : IsQuotedLine(lines[i + d])}

\* C10: on a text that is not blank and holds three consecutive lines that
\* start with ">", hideQuotedPart finds a split, at or before the first line
\* of the first such run.
C10_SplitAtOrBeforeQuotedRun ==
    (pc = "returned" /\ TrimSpace(md) # <<>> /\ QuotedRuns(SplitLines(md)) # {}) =>
        folded.split \in 1..MinOf(QuotedRuns(SplitLines(md)))

\* C10 witness: the split is the first line of the run, with text before it.
C10_Witness ==
    /\ pc = "returned"
    /\ QuotedRuns(SplitLines(md)) # {}
    /\ MinOf(QuotedRuns(SplitLines(md))) > 1
    /\ folded.split = MinOf(QuotedRuns(SplitLines(md)))

\* the lines of a text that start with ">" once trimmed
QuotedLinesOf(text) == {i \in 1..Len(SplitLines(text)) : IsQuotedLine(SplitLines(text)[i])}

\* C11: when hideQuotedPart is called with removeQuotes = true and finds a
\* split, no line of the text it returns starts with ">".
C11_NoQuotedLineLeft ==
    (pc = "returned" /\ md # <<>> /\ removeQuotes /\ folded.split > 0) =>
        QuotedLinesOf(folded.text) = {}

IsBlank(s) == TrimSpace(s) = <<>>

\* the <details> block with the summary "Show quoted email" around a text
Wrapped(quoted) ==
    <<"<", "d", "e", "t", "a", "i", "l", "s", ">", "\n", "<", "s", "u", "m", "m", "a", "r", "y", ">", "S", "h", "o", "w", " ", "q", "u", "o", "t", "e", "d", " ", "e", "m", "a", "i", "l", "<", "/", "s", "u", "m", "m", "a", "r", "y", ">", "\n", "\n">> \o quoted \o <<"\n", "\n", "<", "/", "d", "e", "t", "a", "i", "l", "s", ">">>

\* a sequence of lines without the blank lines at its end
RECURSIVE DropBlankLinesAtEnd(_)
DropBlankLinesAtEnd(lines) ==
    IF lines # <<>> /\ IsBlank(lines[Len(lines)])
    THEN DropBlankLinesAtEnd(SubSeq(lines, 1, Len(lines) - 1))
    ELSE lines

\* a text without the newline characters at its end
RECURSIVE DropNewlinesAtEnd(_)
DropNewlinesAtEnd(s) ==
    IF s # <<>> /\ s[Len(s)] = "\n" THEN DropNewlinesAtEnd(SubSeq(s, 1, Len(s) - 1)) ELSE s

\* the three shapes of the result, for a visible and a quoted part
ShapeOfResult(visible, quoted) ==
    IF IsBlank(visible) THEN folded.text = Wrapped(quoted)
    ELSE IF removeQuotes
         THEN folded.text = visible \o <<"\n">> /\ ~Contains(folded.text, <<"<", "d", "e", "t", "a", "i", "l", "s", ">">>)
         ELSE folded.text = visible \o <<"\n", "\n">> \o Wrapped(quoted)

SplitFound == pc = "returned" /\ md # <<>> /\ folded.split > 0

\* C12 as stated: with visible the lines before the split without the blank
\* lines at their end and quoted the lines from the split on (read, in its
\* favour, without the newlines at their end), the result is
\* the wrapped quoted part when visible is blank, visible and a newline when
\* the quotes are removed, visible, a blank line and the wrapped quoted part
\* otherwise.
C12_ResultShapes_AsStated ==
    SplitFound =>
        LET lines == SplitLines(md)
        IN  ShapeOfResult(JoinLines(DropBlankLinesAtEnd(SubSeq(lines, 1, folded.split - 1))),
                          DropNewlinesAtEnd(JoinLines(SubSeq(lines, folded.split, Len(lines)))))

\* C12, amended: the same three shapes with visible the text before the line
\* of the split without the newline characters at its end (a line of white
\* space stays) and quoted the text from that line on without the newline
\* characters at its end.
C12_ResultShapes ==
    SplitFound =>
        LET lines == SplitLines(md)
        IN  ShapeOfResult(DropNewlinesAtEnd(JoinLines(SubSeq(lines, 1, folded.split - 1))),
                          DropNewlinesAtEnd(JoinLines(SubSeq(lines, folded.split, Len(lines)))))

\* C12 witness: a split was found after text and a line of white space, the
\* quotes are kept, and the text ends in a newline.
C12_Witness ==
    /\ SplitFound /\ ~removeQuotes
    /\ folded.split > 2
    /\ ~IsBlank(SplitLines(md)[1])
    /\ SplitLines(md)[folded.split - 1] = <<" ">>
    /\ md[Len(md)] = "\n"

\* line i starts three quoted lines: from i on, passing over blank lines and
\* up to the first line that is neither blank nor quoted, three lines are quoted
StartsQuotedRun(lines, i) ==
    /\ IsQuotedLine(lines[i])
    /\ Cardinality({j \in i..Len(lines) :
                      /\ IsQuotedLine(lines[j])
                      /\ \A k \in i..j : IsBlank(lines[k]) \/ IsQuotedLine(lines[k])}) >= 3

\* the lines at which a split may be made
SplitCandidates(lines) ==
    {i \in 1..Len(lines) :
        ~IsBlank(lines[i]) /\ (StartsQuotedRun(lines, i) \/ MatchesPats(TrimSpace(lines[i])))}

\* C13: hideQuotedPart returns a string for every text, and the text itself
\* when no line that is not blank starts three quoted lines or matches a
\* pattern, blank and empty texts included.
C13_UnquotedTextUntouched ==
    (pc = "returned" /\ doc = NoDocument /\ msg = NoMessage
        /\ SplitCandidates(SplitLines(md)) = {}) =>
        folded.text = md /\ folded.split = 0

\* C13 witness: a text with two quoted lines, a line that just fails a
\* pattern and newlines at its end came back as it was.
C13_Witness ==
    /\ pc = "returned" /\ folded.text = md
    /\ Cardinality(QuotedLinesOf(md)) = 2
    /\ md[Len(md)] = "\n"
    /\ SplitCandidates(SplitLines(md)) = {}

\* C17: the split is the first line that is not blank and either starts three
\* quoted lines or matches a pattern; there is no split when there is no such
\* line.
C17_SplitIsFirstCandidate ==
    (pc = "returned" /\ ~IsBlank(md)) =>
        LET candidates == SplitCandidates(SplitLines(md))
        IN  folded.split = IF candidates = {} THEN 0 ELSE MinOf(candidates)

\* C17 witness: the split is a quoted line after a blank line and two quoted
\* lines that start no run, and a blank line stands inside the run.
C17_Witness ==
    /\ pc = "returned" /\ folded.split > 2
    /\ LET lines == SplitLines(md)
       IN  /\ IsQuotedLine(lines[folded.split])
           /\ \E i \in 1..(folded.split - 1) : IsQuotedLine(lines[i])
           /\ \E i \in 1..(folded.split - 1) : IsBlank(lines[i])
           /\ \E i \in (folded.split + 1)..Len(lines) :
                 IsBlank(lines[i]) /\ \E j \in (i + 1)..Len(lines) : IsQuotedLine(lines[j])

\* C20: when a split is found and the visible part is not blank, the text
\* returned with the quotes removed holds no split: hideQuotedPart returns it
\* as it is, with the quotes removed or kept.
C20_DiscardIsIdempotent ==
    (SplitFound /\ removeQuotes
        /\ ~IsBlank(JoinLines(SubSeq(SplitLines(md), 1, folded.split - 1)))) =>
        /\ hideQuotedPartAt(folded.text, TRUE).split = 0
        /\ hideQuotedPart(folded.text, TRUE) = folded.text
        /\ hideQuotedPart(folded.text, FALSE) = folded.text

\* C20 witness: the visible part holds two quoted lines and a blank line, and
\* the split was made at a quoted line.
C20_Witness ==
    /\ SplitFound /\ removeQuotes
    /\ Cardinality(QuotedLinesOf(folded.text)) = 2
    /\ IsQuotedLine(SplitLines(md)[folded.split])
    /\ hideQuotedPart(folded.text, TRUE) = folded.text

(***************************************************************************)
(* the renderer: C18, C19                                                  *)
(***************************************************************************)
Rendered == pc \in {"returned", "panicked"} /\ doc # NoDocument

NoStacks == [listStack |-> <<>>, olCounters |-> <<>>]
StacksOf(e) == [listStack |-> e.listStack, olCounters |-> e.olCounters]

\* the two stacks before the i-th push, pop or item of the traversal
StacksBefore(i) == IF i = 1 THEN NoStacks ELSE StacksOf(rendered.final.seen[i - 1])

\* the push that the pop at j undoes: the last one before j made at the depth
\* the pop returns to
PushOf(j) ==
    MaxOf({i \in 1..(j - 1) :
              /\ rendered.final.seen[i].op = "push"
              /\ Len(StacksBefore(i).listStack) = Len(rendered.final.seen[j].listStack)})

\* C18: throughout a traversal the counter stack has one entry for every "ol"
\* of the stack of list kinds, leaving a list puts both stacks back to what
\* they were before the list was entered, and both are empty at the end.
C18_StacksInStep ==
    Rendered =>
        LET seen == rendered.final.seen
        IN  /\ \A i \in 1..Len(seen) :
                  Len(seen[i].olCounters)
                      = Cardinality({k \in 1..Len(seen[i].listStack) : seen[i].listStack[k] = "ol"})
            /\ \A j \in 1..Len(seen) :
                  seen[j].op = "pop" => StacksOf(seen[j]) = StacksBefore(PushOf(j))
            /\ pc = "returned" =>
                  rendered.final.listStack = <<>> /\ rendered.final.olCounters = <<>>

\* C18 witness: an ordered list in an item of an ordered list was left with
\* the counter of the outer list at 2, after the inner one had counted.
C18_Witness ==
    /\ pc = "returned" /\ doc # NoDocument
    /\ \E j \in 2..Len(rendered.final.seen) :
          /\ rendered.final.seen[j].op = "pop"
          /\ rendered.final.seen[j - 1].listStack = <<"ol", "ol">>
          /\ rendered.final.seen[j - 1].olCounters = <<2, 3>>
          /\ rendered.final.seen[j].olCounters = <<2>>

\* C19: every list item starts on a line of its own: nothing but its
\* indentation stands between the start of the line and its marker.
C19_ItemOnOwnLine ==
    Rendered =>
        \A i \in 1..Len(rendered.final.items) :
            LET at == rendered.final.items[i].at
            IN  at = 0 \/ rendered.final.buf[at] = "\n"

(***************************************************************************)
(* the handler and the poster                                              *)
(***************************************************************************)
\* the handler stopped on a message it could not handle
StoppedOnFailure == records # <<>> /\ pc \in {"fatal", "panicked"}

\* C14: a failure while handling one message is terminal for that message
\* only: the handler never stops on a failure while records of the event
\* remain after the one that failed.
C14_FailureSkipsOnlyThatMessage == StoppedOnFailure => recAt = Len(records)

\* the line that marks a comment as the one of the message
MessageIDLine(id) == <<"M", "e", "s", "s", "a", "g", "e", "-", "I", "D", ":", " ">> \o id

\* some comment's first line, trimmed, is the line of the message
AlreadyPosted(all, id) ==
    \E i \in 1..Len(all) : TrimSpace(FirstLine(all[i])) = MessageIDLine(id)

\* calls of postIssueComment were made
Called == pc = "poster" /\ poster.calls > 0

\* the comments created are at most one when every listing succeeded, and no
\* POST is sent when a comment already carries the line of the message
PostsOnce ==
    /\ poster.listingsOk => poster.created <= 1
    /\ (poster.listingsOk /\ AlreadyPosted(poster.last.before, poster.last.msgId)) => ~poster.last.sent

InDomain(d, domain) == d = domain \/ HasSuffix(d, <<".">> \o domain)

\* C16: the handler posts a comment only for a message that passes the three
\* gates: Authentication-Results holds spf=pass or dkim=pass, an issue number
\* is found in To or Cc, and the domain of From is the whitelisted domain or a
\* subdomain of it.
C16_PostsOnlyThroughGates ==
    (pc = "exited" /\ poster.last.sent) =>
        LET rec == records[recAt]
        IN  /\ Contains(rec.auth, <<"s", "p", "f", "=", "p", "a", "s", "s">>) \/ Contains(rec.auth, <<"d", "k", "i", "m", "=", "p", "a", "s", "s">>)
            /\ extractIssueNumber(rec.to, rec.cc) # <<>>
            /\ InDomain(extractSenderDomain(rec.from), whitelistDomain)

=============================================================================
